---- MODULE Spec2Model ----
(***************************************************************************)
(* The AI book generation backend of src/backend/server.py:                *)
(* POST /api/generate-book (generate_book), AIBookGenerator.generate_book  *)
(* with its three attempts against the external text-generation service,   *)
(* the template fallback _generate_enhanced_fallback_book, the store        *)
(* db.book_orders, and GET /api/book/{book_id} (get_book).                  *)
(*                                                                         *)
(* The protected endpoints of src/final-book/main.py (verify_api_key,      *)
(* create_checkout_session, get_products, generate_content) and the        *)
(* application of src/main.py (Application.run, DataProcessor.process_data *)
(* and save_results, HealthMonitor) are modelled beside it, each with      *)
(* specifications of its own.                                              *)
(*                                                                         *)
(* Python str values are TLA+ strings.  Every code point of the source     *)
(* outside ASCII (the emoji and dashes of the templates), and the backquote *)
(* of the user prompt, which the lexer does not take in a string, is "~":  *)
(* one character each, none of them whitespace, none of them in an input.  *)
(***************************************************************************)
EXTENDS Integers, Sequences, FiniteSets, TLC

VARIABLES
    pc,                 \* where the request is: idle, generate_book, loop, await, returned, insert, responded, cancelled
    request,            \* the BookRequest of the endpoint
    model_provider,     \* locals of AIBookGenerator.generate_book
    model_name,
    style_instruction,
    system_message,
    user_prompt,
    attempt,            \* the loop variable of "for attempt in range(3)"; 3 once the loop is exhausted
    calls,              \* the chat.send_message calls made so far, in order
    outcomes,           \* what each call ended with: "raised", "rejected", "accepted"
    content,            \* the body generate_book returned
    source,             \* "none", "ai" or "fallback": which return statement produced content
    now,                \* the datetime.now() read by the fallback template
    word_count,         \* local of the endpoint
    book_order,         \* the BookOrder the endpoint built
    book_orders,        \* the collection db.book_orders
    http,               \* the answer of the endpoint
    requests,           \* how many POST /api/generate-book the server has taken
    cancelled,          \* asyncio.CancelledError was thrown into the task of the request
    store_calls,        \* the documents the request handed to db.book_orders.insert_one, in order
    generated_books,    \* the client's record of the 200 answers of generate-book
    get_answer,         \* the answer of the last GET /api/book/{book_id}, until the next request
    peer,               \* the locals of a second generate-book request, suspended at an await
    environ,            \* src/final-book/main.py: os.environ of the process
    wb_pc,              \* where its request is: idle, verify, handler, stripe, ai, answered
    endpoint,           \* the route of the request
    credentials,        \* what HTTPBearer(auto_error=False) gives verify_api_key
    data,               \* the body of the request
    authorized,         \* the parameter of the handler: verify_api_key has returned True
    stripe_calls,       \* the stripe.checkout.Session.create calls made
    ai_calls,           \* the posts of EmergentAI.generate_content made
    answer,             \* the answer to the request
    max_retries,        \* src/main.py: AppConfig.max_retries
    app_pc,             \* where Application.run is
    health_status,      \* HealthMonitor.status
    shutdown_event,     \* Application.shutdown_event is set
    shutdown_at_return, \* shutdown_event was set when process_data returned
    input_data,         \* the parameter of process_data
    index,              \* the items of input_data the loop of process_data is done with
    processed_data,     \* the list process_data builds
    processed_count,    \* DataProcessor.processed_count
    metrics,            \* PerformanceMetrics: items_processed, errors_count, retry_count
    save_attempt,       \* the loop variable of save_results
    write_outcomes,     \* what each write attempt ended with: "failed", "written"
    sleeps,             \* the time.sleep calls of save_results, in order
    success,            \* what save_results returned: "pending", "True", "False", "None"
    file_written,       \* the results file has been written
    exit_code,          \* local of Application.run
    run_result          \* what Application.run returned, once app_pc is "returned"

server_vars == <<pc, request, model_provider, model_name, style_instruction, system_message,
          user_prompt, attempt, calls, outcomes, content, source, now, word_count,
          book_order, book_orders, http, requests, cancelled, store_calls,
          generated_books, get_answer, peer>>

wizbook_vars == <<environ, wb_pc, endpoint, credentials, data, authorized, stripe_calls,
                  ai_calls, answer>>

app_vars == <<max_retries, app_pc, health_status, shutdown_event, shutdown_at_return,
              input_data, index, processed_data, processed_count, metrics, save_attempt,
              write_outcomes, sleeps, success, file_written, exit_code, run_result>>

vars == <<server_vars, wizbook_vars, app_vars>>

----------------------------------------------------------------------------
(* Python str operations *)

Char(s, i) == SubSeq(s, i, i)

\* str.isspace() on ASCII
IsSpace(c) == c \in {" ", "\t", "\n", "\r", "\f"}

UpperLetters == "ABCDEFGHIJKLMNOPQRSTUVWXYZ"
LowerLetters == "abcdefghijklmnopqrstuvwxyz"

IndexIn(c, letters) ==
    IF \E k \in 1..Len(letters) : Char(letters, k) = c
    THEN CHOOSE k \in 1..Len(letters) : Char(letters, k) = c
    ELSE 0

IsCased(c) == IndexIn(c, UpperLetters) > 0 \/ IndexIn(c, LowerLetters) > 0

LowerChar(c) ==
    IF IndexIn(c, UpperLetters) > 0 THEN Char(LowerLetters, IndexIn(c, UpperLetters)) ELSE c

UpperChar(c) ==
    IF IndexIn(c, LowerLetters) > 0 THEN Char(UpperLetters, IndexIn(c, LowerLetters)) ELSE c

\* s * n
RECURSIVE Repeat(_, _)
Repeat(s, n) ==
    IF n <= 0 THEN ""
    ELSE LET half == Repeat(s, n \div 2)
         IN  IF n % 2 = 0 THEN half \o half ELSE half \o half \o s

\* str.lower(), character by character
RECURSIVE LowerRange(_, _, _)
LowerRange(s, lo, hi) ==
    IF lo > hi THEN ""
    ELSE IF lo = hi THEN LowerChar(Char(s, lo))
    ELSE LET mid == (lo + hi) \div 2
         IN  LowerRange(s, lo, mid) \o LowerRange(s, mid + 1, hi)

Lower(s) == LowerRange(s, 1, Len(s))

\* str.title(): a cased character is upper-cased when the character before it is
\* not cased, lower-cased when it is
TitleChar(s, i) ==
    IF i > 1 /\ IsCased(Char(s, i - 1)) THEN LowerChar(Char(s, i)) ELSE UpperChar(Char(s, i))

RECURSIVE TitleRange(_, _, _)
TitleRange(s, lo, hi) ==
    IF lo > hi THEN ""
    ELSE IF lo = hi THEN TitleChar(s, lo)
    ELSE LET mid == (lo + hi) \div 2
         IN  TitleRange(s, lo, mid) \o TitleRange(s, mid + 1, hi)

Title(s) == TitleRange(s, 1, Len(s))

\* sub in s
Contains(sub, s) ==
    \/ sub = ""
    \/ \E i \in 1..(Len(s) - Len(sub) + 1) :
        /\ Char(s, i) = Char(sub, 1)
        /\ SubSeq(s, i, i + Len(sub) - 1) = sub

\* str.strip(): from the first to the last character that is not whitespace
Strip(s) ==
    LET nonspace == {i \in 1..Len(s) : ~IsSpace(Char(s, i))}
    IN  IF nonspace = {} THEN ""
        ELSE SubSeq(s,
                    CHOOSE i \in nonspace : \A j \in 1..(i - 1) : IsSpace(Char(s, j)),
                    CHOOSE i \in nonspace : \A j \in (i + 1)..Len(s) : IsSpace(Char(s, j)))

\* SplitCount as len(s.split(" ")) would count: the pieces between single spaces
SplitCountOnSpace(s) ==
    Cardinality({i \in 1..Len(s) : Char(s, i) = " "}) + 1

\* len(s.split()): the number of maximal runs of non-whitespace characters
SplitCount(s) ==
    Cardinality({i \in 1..Len(s) :
        ~IsSpace(Char(s, i)) /\ (i = 1 \/ IsSpace(Char(s, i - 1)))})

\* datetime.strftime("%B %Y")
MonthNames ==
    <<"January", "February", "March", "April", "May", "June", "July",
      "August", "September", "October", "November", "December">>

strftime_B_Y(d) == MonthNames[d.month] \o " " \o ToString(d.year)

----------------------------------------------------------------------------
(* AIBookGenerator.generate_book: strategy and prompts *)

\* word_counts.get(request.tier, '10,000-15,000 words')
word_counts_get(tier) ==
    CASE tier = "basic" -> "5,000-8,000 words"
      [] tier = "pro" -> "10,000-15,000 words"
      [] tier = "premium" -> "20,000-30,000 words"
      [] OTHER -> "10,000-15,000 words"

\* SelectStrategy with the creative branch tested before the technical one
SelectStrategyCreativeFirst(topic) ==
    IF Contains("story", Lower(topic)) \/ Contains("creative", Lower(topic))
    THEN [model_provider |-> "anthropic", model_name |-> "claude-3-5-sonnet-20241022",
          style_instruction |-> "engaging and narrative-driven"]
    ELSE IF Contains("technical", Lower(topic)) \/ Contains("programming", Lower(topic))
    THEN [model_provider |-> "openai", model_name |-> "gpt-4o-mini",
          style_instruction |-> "technical yet accessible"]
    ELSE [model_provider |-> "openai", model_name |-> "gpt-4o-mini",
          style_instruction |-> "clear and informative"]

\* the if / elif / else on request.topic.lower()
SelectStrategy(topic) ==
    IF Contains("technical", Lower(topic)) \/ Contains("programming", Lower(topic))
    THEN [model_provider |-> "openai", model_name |-> "gpt-4o-mini",
          style_instruction |-> "technical yet accessible"]
    ELSE IF Contains("story", Lower(topic)) \/ Contains("creative", Lower(topic))
    THEN [model_provider |-> "anthropic", model_name |-> "claude-3-5-sonnet-20241022",
          style_instruction |-> "engaging and narrative-driven"]
    ELSE [model_provider |-> "openai", model_name |-> "gpt-4o-mini",
          style_instruction |-> "clear and informative"]

\* server.py 93-99
SystemMessage(req, instruction) ==
    "You are an expert book author specializing in creating high-quality, comprehensive books. \n"
    \o "        Generate a complete book that readers will find valuable enough to pay for.\n"
    \o "        \n"
    \o "        Style: " \o instruction \o "\n"
    \o "        Target Audience: " \o req.audience \o "\n"
    \o "        Expected Length: " \o word_counts_get(req.tier) \o "\n"
    \o "        "

\* server.py 102-132
UserPrompt(req) ==
    "\n"
    \o "        Create a comprehensive book about \"" \o req.topic \o "\" for " \o req.audience \o ".\n"
    \o "        \n"
    \o "        Requirements:\n"
    \o "        - Title: Create an engaging, marketable title\n"
    \o "        - Structure: 6-8 chapters with clear progression\n"
    \o "        - Content: Practical, actionable information\n"
    \o "        - Style: " \o req.style \o " writing style\n"
    \o "        - Audience: Written specifically for " \o req.audience \o "\n"
    \o "        - Length: Aim for " \o word_counts_get(req.tier) \o "\n"
    \o "        \n"
    \o "        Format the book in clean Markdown with:\n"
    \o "        - # Main Title\n"
    \o "        - ## Chapter Titles\n"
    \o "        - ### Section Headers\n"
    \o "        - **Bold** for emphasis\n"
    \o "        - ~Code blocks~ if applicable\n"
    \o "        - > Blockquotes for key insights\n"
    \o "        - ~~~~ **Pro Tip:** callouts throughout\n"
    \o "        - ~~~ **Quick Win:** actionable items\n"
    \o "        - ~~~~ **Deep Dive:** advanced concepts\n"
    \o "        \n"
    \o "        Make this a book people would actually want to buy and read. Include:\n"
    \o "        1. Practical examples\n"
    \o "        2. Step-by-step instructions\n"
    \o "        3. Common mistakes to avoid\n"
    \o "        4. Advanced tips and tricks\n"
    \o "        5. Real-world applications\n"
    \o "        \n"
    \o "        Start writing the complete book now:\n"
    \o "        "

----------------------------------------------------------------------------
(* AIBookGenerator._generate_enhanced_fallback_book *)

\* topic_examples, in the order of the dict
topic_examples ==
    <<[key |-> "python", value |-> "variables, functions, loops, classes"],
      [key |-> "javascript", value |-> "DOM manipulation, async/await, React components"],
      [key |-> "marketing", value |-> "customer personas, conversion funnels, A/B testing"],
      [key |-> "finance", value |-> "budgeting, investing, compound interest"],
      [key |-> "health", value |-> "nutrition basics, exercise routines, stress management"]>>

\* the for loop with break: the value of the first key found in the topic
FindExamples(topic) ==
    LET hits == {k \in 1..Len(topic_examples) :
                    Contains(Lower(topic_examples[k].key), Lower(topic))}
    IN  IF hits = {} THEN "practical concepts and real-world applications"
        ELSE topic_examples[CHOOSE k \in hits : \A j \in hits : k <= j].value

\* ContentMultiplier with 1 as the default of .get
ContentMultiplierDefaultOne(tier) ==
    CASE tier = "basic" -> 1
      [] tier = "pro" -> 2
      [] tier = "premium" -> 3
      [] OTHER -> 1

\* ContentMultiplier with premium given the multiplier of pro
ContentMultiplierPremiumTwo(tier) ==
    CASE tier = "basic" -> 1
      [] tier = "pro" -> 2
      [] tier = "premium" -> 2
      [] OTHER -> 2

\* {"basic": 1, "pro": 2, "premium": 3}.get(request.tier, 2)
ContentMultiplier(tier) ==
    CASE tier = "basic" -> 1
      [] tier = "pro" -> 2
      [] tier = "premium" -> 3
      [] OTHER -> 2

\* server.py 189-194
FallbackTitle(req, examples, content_multiplier, date) ==
    "# ~~~~ " \o Title(req.topic) \o ": The Complete Guide for " \o Title(req.audience) \o "\n"
    \o "\n"
    \o "*Your comprehensive resource for mastering " \o Lower(req.topic) \o "*\n"
    \o "\n"
    \o "---\n"
    \o "\n"

\* server.py 195-207
FallbackContents(req, examples, content_multiplier, date) ==
    "## ~~~~ Table of Contents\n"
    \o "\n"
    \o "1. [Why " \o req.topic \o " Matters](#chapter-1)\n"
    \o "2. [Getting Started: First Steps](#chapter-2) \n"
    \o "3. [Core Fundamentals](#chapter-3)\n"
    \o "4. [Practical Applications](#chapter-4)\n"
    \o "5. [Advanced Strategies](#chapter-5)\n"
    \o "6. [Common Pitfalls & Solutions](#chapter-6)\n"
    \o "7. [Best Practices & Tips](#chapter-7)\n"
    \o "8. [Your Next Steps](#chapter-8)\n"
    \o "\n"
    \o "---\n"
    \o "\n"

\* server.py 208-235
FallbackChapter1(req, examples, content_multiplier, date) ==
    "## Chapter 1: Why " \o req.topic \o " Matters\n"
    \o "\n"
    \o "Welcome to your journey into " \o req.topic \o "! This book is specifically crafted for " \o req.audience \o " who want to gain real, applicable knowledge.\n"
    \o "\n"
    \o "### The Current Landscape\n"
    \o "\n"
    \o "In today's rapidly evolving world, " \o Lower(req.topic) \o " has become more crucial than ever. Whether you're just starting out or looking to deepen your understanding, this guide will provide you with:\n"
    \o "\n"
    \o "- **Clear explanations** that make complex concepts accessible\n"
    \o "- **Step-by-step instructions** you can follow immediately  \n"
    \o "- **Real-world examples** from successful implementations\n"
    \o "- **Proven strategies** that deliver measurable results\n"
    \o "\n"
    \o "~~~~ **Pro Tip:** The key to mastering " \o Lower(req.topic) \o " is consistent practice combined with understanding the underlying principles.\n"
    \o "\n"
    \o "### What Makes This Different\n"
    \o "\n"
    \o "Unlike other resources that focus on theory, this book emphasizes:\n"
    \o "\n"
    \o "~~~ **Practical application** - Every concept includes actionable steps\n"
    \o "~~~ **Beginner-friendly approach** - No prior experience assumed\n"
    \o "~~~ **Progressive learning** - Each chapter builds on previous knowledge\n"
    \o "~~~ **Real examples** - Case studies from actual implementations\n"
    \o "\n"
    \o "~~~ **Quick Win:** By the end of this first chapter, you'll understand exactly why " \o Lower(req.topic) \o " is essential for " \o req.audience \o ".\n"
    \o "\n"
    \o "---\n"
    \o "\n"

\* server.py 236-273
FallbackChapter2(req, examples, content_multiplier, date) ==
    "## Chapter 2: Getting Started - First Steps\n"
    \o "\n"
    \o "Let's dive into the fundamentals you need to begin your " \o Lower(req.topic) \o " journey.\n"
    \o "\n"
    \o "### Essential Prerequisites\n"
    \o "\n"
    \o "Before we begin, ensure you have:\n"
    \o "- A clear understanding of your goals\n"
    \o "- Basic familiarity with " \o examples \o "\n"
    \o "- Access to the necessary tools (covered below)\n"
    \o "- Commitment to regular practice\n"
    \o "\n"
    \o "### Setting Up Your Environment\n"
    \o "\n"
    \o "**Step 1: Gather Your Tools**\n"
    \o Repeat("For " \o Lower(req.topic) \o ", you'll need specific tools and resources. Here's your starter toolkit:", content_multiplier) \o "\n"
    \o "\n"
    \o "**Step 2: Create Your Workspace**\n"
    \o "Organization is key to success. Set up a dedicated space where you can focus on learning and applying " \o Lower(req.topic) \o " concepts.\n"
    \o "\n"
    \o "**Step 3: Establish Your Learning Routine**\n"
    \o "Consistency beats intensity. Aim for regular, focused sessions rather than occasional marathon efforts.\n"
    \o "\n"
    \o "~~~~ **Pro Tip:** Start with just 15-30 minutes daily. This builds momentum without overwhelming your schedule.\n"
    \o "\n"
    \o "### Your First Success\n"
    \o "\n"
    \o "Here's a simple exercise to get you started:\n"
    \o "\n"
    \o "1. **Identify** your primary goal with " \o Lower(req.topic) \o "\n"
    \o "2. **Define** what success looks like for you\n"
    \o "3. **Choose** one specific area to focus on first\n"
    \o "4. **Take action** on the smallest possible step today\n"
    \o "\n"
    \o "~~~~ **Deep Dive:** The most successful learners combine theoretical understanding with immediate practical application.\n"
    \o "\n"
    \o "---\n"
    \o "\n"

\* server.py 274-310
FallbackChapter3(req, examples, content_multiplier, date) ==
    "## Chapter 3: Core Fundamentals\n"
    \o "\n"
    \o "Now that you're set up, let's explore the essential concepts that form the foundation of " \o Lower(req.topic) \o ".\n"
    \o "\n"
    \o "### The Building Blocks\n"
    \o "\n"
    \o "Every expert in " \o Lower(req.topic) \o " masters these core elements:\n"
    \o "\n"
    \o "**Fundamental #1: Understanding the Basics**\n"
    \o Repeat("The foundation of " \o Lower(req.topic) \o " rests on understanding key principles that govern how things work.", content_multiplier) \o "\n"
    \o "\n"
    \o "**Fundamental #2: Practical Application**\n"
    \o "Knowledge without application is just information. Here's how to put theory into practice:\n"
    \o "- Start with simple examples\n"
    \o "- Gradually increase complexity  \n"
    \o "- Test your understanding regularly\n"
    \o "- Learn from mistakes\n"
    \o "\n"
    \o "**Fundamental #3: System Thinking**\n"
    \o Repeat(Title(req.topic) \o " isn't just about isolated techniques~~~it's about understanding how components work together.", content_multiplier) \o "\n"
    \o "\n"
    \o "~~~ **Quick Win:** Practice explaining one fundamental concept to someone else. If you can teach it, you understand it.\n"
    \o "\n"
    \o "### Common Misconceptions\n"
    \o "\n"
    \o "Let's address the most frequent misunderstandings about " \o Lower(req.topic) \o ":\n"
    \o "\n"
    \o "~~~ **Myth:** You need extensive background knowledge to get started\n"
    \o "~~~ **Reality:** Basic understanding is sufficient; expertise develops through practice\n"
    \o "\n"
    \o "~~~ **Myth:** There's one \"right\" way to approach " \o Lower(req.topic) \o "\n"
    \o "~~~ **Reality:** Multiple valid approaches exist; choose what works for your situation\n"
    \o "\n"
    \o "~~~~ **Pro Tip:** Question conventional wisdom. Some \"best practices\" may not apply to your specific context.\n"
    \o "\n"
    \o "---\n"
    \o "\n"

\* server.py 311-354
FallbackChapter4(req, examples, content_multiplier, date) ==
    "## Chapter 4: Practical Applications\n"
    \o "\n"
    \o "Theory is valuable, but application is where real learning happens. Let's explore how to use " \o Lower(req.topic) \o " in real-world scenarios.\n"
    \o "\n"
    \o "### Real-World Scenarios\n"
    \o "\n"
    \o "**Scenario 1: The Beginner's Challenge**\n"
    \o Repeat("When you're new to " \o Lower(req.topic) \o ", you'll encounter situations that seem overwhelming. Here's how to break them down:", content_multiplier) \o "\n"
    \o "\n"
    \o "- Identify the core problem\n"
    \o "- Break it into smaller components\n"
    \o "- Address each component systematically\n"
    \o "- Integrate solutions into a coherent whole\n"
    \o "\n"
    \o "**Scenario 2: The Scaling Challenge**\n"
    \o "As you advance, you'll need to apply " \o Lower(req.topic) \o " concepts at larger scales or in more complex situations.\n"
    \o "\n"
    \o "**Scenario 3: The Innovation Challenge**\n"
    \o "Eventually, you'll encounter unique situations requiring creative applications of " \o Lower(req.topic) \o " principles.\n"
    \o "\n"
    \o "### Step-by-Step Implementation Guide\n"
    \o "\n"
    \o "**Phase 1: Planning (Days 1-3)**\n"
    \o "- Assess your current situation\n"
    \o "- Define clear objectives\n"
    \o "- Identify required resources\n"
    \o "- Create implementation timeline\n"
    \o "\n"
    \o "**Phase 2: Execution (Days 4-14)**  \n"
    \o "- Begin with foundational elements\n"
    \o "- Monitor progress regularly\n"
    \o "- Adjust approach based on results\n"
    \o "- Document lessons learned\n"
    \o "\n"
    \o "**Phase 3: Optimization (Days 15-30)**\n"
    \o "- Analyze performance metrics\n"
    \o "- Identify improvement opportunities\n"
    \o "- Implement refinements\n"
    \o "- Scale successful approaches\n"
    \o "\n"
    \o "~~~~ **Deep Dive:** The most effective implementations combine careful planning with flexible execution.\n"
    \o "\n"
    \o "---\n"
    \o "\n"

\* server.py 355-384
FallbackChapter5(req, examples, content_multiplier, date) ==
    "## Chapter 5: Advanced Strategies\n"
    \o "\n"
    \o "Ready to take your " \o Lower(req.topic) \o " skills to the next level? These advanced strategies will set you apart.\n"
    \o "\n"
    \o "### Expert-Level Techniques\n"
    \o "\n"
    \o "**Strategy 1: Systems Integration**\n"
    \o Repeat("Advanced practitioners of " \o Lower(req.topic) \o " understand how to integrate multiple systems and approaches.", content_multiplier) \o "\n"
    \o "\n"
    \o "**Strategy 2: Predictive Analysis**\n"
    \o "Learn to anticipate challenges and opportunities before they become obvious.\n"
    \o "\n"
    \o "**Strategy 3: Optimization Loops**\n"
    \o "Create systematic approaches to continuous improvement.\n"
    \o "\n"
    \o "### Case Studies\n"
    \o "\n"
    \o "**Case Study 1: The Transformation Success**\n"
    \o Repeat("A detailed look at how one organization successfully implemented " \o Lower(req.topic) \o " strategies.", content_multiplier) \o "\n"
    \o "\n"
    \o "**Case Study 2: The Innovation Breakthrough** \n"
    \o "How creative application of fundamental principles led to breakthrough results.\n"
    \o "\n"
    \o "**Case Study 3: The Scaling Solution**\n"
    \o "Lessons from successfully scaling " \o Lower(req.topic) \o " approaches across larger contexts.\n"
    \o "\n"
    \o "~~~~ **Pro Tip:** Study both successes and failures. Failed attempts often provide the most valuable insights.\n"
    \o "\n"
    \o "---\n"
    \o "\n"

\* server.py 385-419
FallbackChapter6(req, examples, content_multiplier, date) ==
    "## Chapter 6: Common Pitfalls & Solutions\n"
    \o "\n"
    \o "Learn from others' mistakes to accelerate your own progress.\n"
    \o "\n"
    \o "### The Top 10 Mistakes\n"
    \o "\n"
    \o "1. **Rushing the Fundamentals**\n"
    \o "   - Problem: Skipping basic concepts to reach advanced topics quickly\n"
    \o "   - Solution: Build solid foundations before advancing\n"
    \o "\n"
    \o "2. **Analysis Paralysis** \n"
    \o "   - Problem: Over-researching without taking action\n"
    \o "   - Solution: Set decision deadlines and embrace imperfect action\n"
    \o "\n"
    \o "3. **Ignoring Context**\n"
    \o "   - Problem: Applying solutions without considering specific circumstances  \n"
    \o "   - Solution: Always adapt general principles to your unique situation\n"
    \o "\n"
    \o Repeat("4-10. Additional common mistakes specific to " \o Lower(req.topic) \o " and their proven solutions...", content_multiplier) \o "\n"
    \o "\n"
    \o "### Recovery Strategies\n"
    \o "\n"
    \o "When things go wrong (and they will), here's how to recover:\n"
    \o "\n"
    \o "**The Reset Protocol:**\n"
    \o "1. Acknowledge the problem without self-judgment\n"
    \o "2. Analyze what led to the issue\n"
    \o "3. Identify the minimum viable correction\n"
    \o "4. Implement fixes systematically\n"
    \o "5. Document lessons for future reference\n"
    \o "\n"
    \o "~~~ **Quick Win:** Create a simple checklist to avoid the three most common mistakes in your area of focus.\n"
    \o "\n"
    \o "---\n"
    \o "\n"

\* server.py 420-451
FallbackChapter7(req, examples, content_multiplier, date) ==
    "## Chapter 7: Best Practices & Tips\n"
    \o "\n"
    \o "Accelerate your progress with these proven best practices.\n"
    \o "\n"
    \o "### The Success Framework\n"
    \o "\n"
    \o "**Daily Habits:**\n"
    \o "- Consistent practice (even 10 minutes counts)\n"
    \o "- Regular review of progress\n"
    \o "- Active seeking of feedback\n"
    \o "- Continuous learning mindset\n"
    \o "\n"
    \o "**Weekly Reviews:**\n"
    \o "- Assess what's working well\n"
    \o "- Identify areas for improvement\n"
    \o "- Adjust strategies as needed\n"
    \o "- Celebrate progress made\n"
    \o "\n"
    \o "**Monthly Deep Dives:**\n"
    \o "- Comprehensive skill assessment\n"
    \o "- Strategic planning updates\n"
    \o "- Goal refinement\n"
    \o "- Knowledge gap analysis\n"
    \o "\n"
    \o "### Productivity Hacks\n"
    \o "\n"
    \o Repeat("Specific tips and tricks that successful " \o Lower(req.topic) \o " practitioners use to maximize their effectiveness:", content_multiplier) \o "\n"
    \o "\n"
    \o "~~~~ **Deep Dive:** The compound effect of small, consistent improvements creates extraordinary long-term results.\n"
    \o "\n"
    \o "---\n"
    \o "\n"

\* server.py 452-502
FallbackChapter8(req, examples, content_multiplier, date) ==
    "## Chapter 8: Your Next Steps\n"
    \o "\n"
    \o "Congratulations! You now have a comprehensive understanding of " \o Lower(req.topic) \o ". Here's how to continue your journey.\n"
    \o "\n"
    \o "### The 30-60-90 Day Plan\n"
    \o "\n"
    \o "**Days 1-30: Foundation Building**\n"
    \o "- Implement core concepts daily\n"
    \o "- Complete at least 3 practical exercises\n"
    \o "- Join relevant communities\n"
    \o "- Track progress metrics\n"
    \o "\n"
    \o "**Days 31-60: Skill Development**\n"
    \o "- Tackle more complex challenges\n"
    \o "- Seek mentorship or guidance\n"
    \o "- Share your knowledge with others\n"
    \o "- Experiment with advanced techniques\n"
    \o "\n"
    \o "**Days 61-90: Mastery Path**\n"
    \o "- Lead projects or initiatives\n"
    \o "- Teach others what you've learned\n"
    \o "- Contribute to community knowledge\n"
    \o "- Plan your advanced learning path\n"
    \o "\n"
    \o "### Continued Learning Resources\n"
    \o "\n"
    \o "**Books and Publications:**\n"
    \o "- [Curated list of advanced resources]\n"
    \o "\n"
    \o "**Communities and Networks:**\n"
    \o "- Professional associations\n"
    \o "- Online forums and groups\n"
    \o "- Local meetups and events\n"
    \o "\n"
    \o "**Tools and Software:**\n"
    \o "- Essential tools for continued practice\n"
    \o "- Advanced platforms for skill development\n"
    \o "\n"
    \o "### Final Thoughts\n"
    \o "\n"
    \o "Mastering " \o Lower(req.topic) \o " is a journey, not a destination. The concepts in this book provide a strong foundation, but your continued growth depends on:\n"
    \o "\n"
    \o "- **Consistent application** of what you've learned\n"
    \o "- **Continuous learning** as the field evolves\n"
    \o "- **Community engagement** with fellow practitioners  \n"
    \o "- **Teaching others** to reinforce your own understanding\n"
    \o "\n"
    \o "~~~~ **Final Pro Tip:** The best learning happens when you combine structured study with real-world application. Don't wait until you feel \"ready\"~~~start applying these concepts today.\n"
    \o "\n"
    \o "---\n"
    \o "\n"

\* server.py 503-534
FallbackBonus(req, examples, content_multiplier, date) ==
    "## Bonus: Quick Reference Guide\n"
    \o "\n"
    \o "### Key Concepts Checklist\n"
    \o "- [ ] Core fundamentals understood\n"
    \o "- [ ] Practical applications identified\n"
    \o "- [ ] Common pitfalls recognized\n"
    \o "- [ ] Best practices implemented\n"
    \o "- [ ] Advanced strategies planned\n"
    \o "\n"
    \o "### Emergency Troubleshooting\n"
    \o "When stuck, ask yourself:\n"
    \o "1. Am I overthinking this?\n"
    \o "2. What would the simplest solution look like?\n"
    \o "3. Who could I ask for guidance?\n"
    \o "4. What would I tell someone else in this situation?\n"
    \o "\n"
    \o "### Success Metrics\n"
    \o "Track these key indicators:\n"
    \o "- Consistency of practice\n"
    \o "- Quality of implementations\n"
    \o "- Speed of problem-solving\n"
    \o "- Confidence in application\n"
    \o "- Ability to teach others\n"
    \o "\n"
    \o "---\n"
    \o "\n"
    \o "*Thank you for choosing this guide for your " \o Lower(req.topic) \o " journey. Your success is our success!*\n"
    \o "\n"
    \o "**Word Count:** ~" \o ToString(2500 * content_multiplier) \o " words\n"
    \o "**Estimated Reading Time:** " \o ToString(20 * content_multiplier) \o " minutes\n"
    \o "**Skill Level:** " \o Title(req.audience) \o "\n"
    \o "**Last Updated:** " \o strftime_B_Y(date)
\* the f-string returned by _generate_enhanced_fallback_book
FallbackTemplate(req, examples, content_multiplier, date) ==
    FallbackTitle(req, examples, content_multiplier, date)
    \o FallbackContents(req, examples, content_multiplier, date)
    \o FallbackChapter1(req, examples, content_multiplier, date)
    \o FallbackChapter2(req, examples, content_multiplier, date)
    \o FallbackChapter3(req, examples, content_multiplier, date)
    \o FallbackChapter4(req, examples, content_multiplier, date)
    \o FallbackChapter5(req, examples, content_multiplier, date)
    \o FallbackChapter6(req, examples, content_multiplier, date)
    \o FallbackChapter7(req, examples, content_multiplier, date)
    \o FallbackChapter8(req, examples, content_multiplier, date)
    \o FallbackBonus(req, examples, content_multiplier, date)

\* _generate_enhanced_fallback_book formatting the topic and the audience lower-cased
FallbackBookOfLoweredRequest(req, date) ==
    FallbackTemplate([req EXCEPT !.topic = Lower(req.topic),
                                 !.audience = Lower(req.audience)],
                     FindExamples(req.topic), ContentMultiplier(req.tier), date)

_generate_enhanced_fallback_book(req, date) ==
    FallbackTemplate(req, FindExamples(req.topic), ContentMultiplier(req.tier), date)

----------------------------------------------------------------------------
(* Inputs *)

\* the last one is the first payload of the XSS test (backend_test.py, xss_payloads)
Topics ==
    {"Advanced Programming Patterns", "A Creative Short Story", "Healthy Living Tips",
     "TECHNICAL Story Writing", "", "<script>alert('xss')</script>"}

Audiences == {"beginners", "Pro Devs"}

Tiers == {"basic", "pro", "premium", "enterprise"}

Styles == {"professional"}

Requests ==
    [topic : Topics, audience : Audiences, style : Styles, tier : Tiers]

\* the JSON bodies posted: every field given, or some left out; the second one is
\* the invalid_request of backend_test.py
Bodies ==
    Requests \cup {[audience |-> "beginners"],
                   [topic |-> "", audience |-> "beginners"],
                   [topic |-> "Healthy Living Tips"]}

\* the fields declared with Field(...) are required, of type str, of any length
BookRequestAccepts(body) ==
    /\ "topic" \in DOMAIN body
    /\ "audience" \in DOMAIN body

\* the BookRequest of an accepted body: a field left out takes its default
BookRequest(body) ==
    [topic |-> body.topic,
     audience |-> body.audience,
     style |-> IF "style" \in DOMAIN body THEN body.style ELSE "professional",
     tier |-> IF "tier" \in DOMAIN body THEN body.tier ELSE "pro"]

\* what chat.send_message can return: None or a str
NoneResponse == [none |-> TRUE, text |-> ""]
Str(t) == [none |-> FALSE, text |-> t]

MinResponseLength == 500
MaxPad == 1

\* n spaces, then the text, then n line breaks
Padded(t, n) == Repeat(" ", n) \o t \o Repeat("\n", n)

Responses ==
    {NoneResponse, Str(""), Str("Sorry, I cannot write this book.")}
    \cup {Str(Padded(Repeat("x", len), n)) :
            len \in {MinResponseLength, MinResponseLength + 1}, n \in 0..MaxPad}
    \cup {Str(Repeat("lorem ipsum\n", 50))}

Dates == {[year |-> 2025, month |-> 5], [year |-> 2025, month |-> 9]}

\* str(uuid.uuid4()) of the k-th order built: 122 random bits, taken here as a
\* value no earlier order was given
uuid4(k) == "uuid4-" \o ToString(k)

\* what datetime.utcnow() can give
Timestamps ==
    {[year |-> 2025, month |-> 5, day |-> 31], [year |-> 2025, month |-> 6, day |-> 1]}


NoRequest == [topic |-> "", audience |-> "", style |-> "", tier |-> ""]
NoDate == [year |-> 0, month |-> 0]
NoOrder == [id |-> "", book_request |-> NoRequest, content |-> "", status |-> "",
            word_count |-> 0, created_at |-> [year |-> 0, month |-> 0, day |-> 0]]
NoAnswer == [status_code |-> 0]

\* an id no order was given: the fake_id of backend_test.py
FakeId == "uuid4-fake"

----------------------------------------------------------------------------
(* src/main.py: inputs *)

\* the values of an item: a str, an int, None
PyStr(s) == [type |-> "str", str |-> s]
PyInt(n) == [type |-> "int", num |-> n]
PyNone == [type |-> "NoneType"]

\* an item is a dict (a record of its keys) or, here, a value that is none
IsDict(item) == "type" \notin DOMAIN item

Item(id, name, value, category) ==
    [id |-> PyInt(id), name |-> PyStr(name), value |-> PyInt(value),
     category |-> PyStr(category)]

\* Application._load_sample_data
SampleData ==
    <<Item(1, "Alice", 100, "A"), Item(2, "Bob", 200, "B"), Item(3, "Charlie", 300, "A"),
      Item(4, "Diana", 400, "C"), Item(5, "Evan", 500, "B"), Item(6, "Fiona", 600, "A"),
      Item(7, "George", 700, "C"), Item(8, "Hannah", 800, "B"), Item(9, "Ian", 900, "A"),
      Item(10, "Jessica", 1000, "C")>>

\* the items process_data is given: complete, with a name and a value of other
\* types, without an id, and no dict at all
ItemKinds ==
    {Item(1, "Alice", 100, "A"),
     [id |-> PyInt(2), name |-> PyNone, value |-> PyStr("n/a")],
     [name |-> PyStr("Bob"), value |-> PyInt(200)],
     PyStr("not a dict")}

MaxItems == 3

InputLists == UNION {[1..n -> ItemKinds] : n \in 0..MaxItems}

DefaultMaxRetries == 3

MaxRetries == 2

\* --max-retries is any int
MaxRetriesValues == (0 - 1)..MaxRetries

\* datetime.utcnow().isoformat()
UtcNowIso == "2025-09-14T12:00:00.000000"

NoMetrics == [items_processed |-> 0, errors_count |-> 0, retry_count |-> 0]

\* Application.__init__: the metrics, the monitor, the processor, the event
AppConstructed ==
    /\ health_status = "INITIALIZING"
    /\ shutdown_event = FALSE
    /\ shutdown_at_return = FALSE
    /\ index = 0
    /\ processed_data = <<>>
    /\ processed_count = 0
    /\ metrics = NoMetrics
    /\ save_attempt = 0
    /\ write_outcomes = <<>>
    /\ sleeps = <<>>
    /\ success = "pending"
    /\ file_written = FALSE
    /\ exit_code = 0
    /\ run_result = 0

\* the application with the default configuration, not run
AppIdle ==
    /\ max_retries = DefaultMaxRetries
    /\ app_pc = "constructed"
    /\ input_data = <<>>
    /\ AppConstructed

----------------------------------------------------------------------------
(* src/final-book/main.py: inputs *)

\* a value that is None or a str
None == [none |-> TRUE, text |-> ""]

\* the prices of the three tiers as the environment gives them
PriceConfigs ==
    {[basic |-> Str("price_basic"), pro |-> Str("price_pro"),
      business |-> Str("price_business")],
     [basic |-> Str("prod_basic"), pro |-> None, business |-> Str("price_business")]}

Environs ==
    {[API_KEY |-> key,
      STRIPE_BASIC_PRICE |-> prices.basic,
      STRIPE_PRO_PRICE |-> prices.pro,
      STRIPE_BUSINESS_PRICE |-> prices.business,
      EMERGENT_LLM_KEY |-> llm_key] :
        key \in {None, Str("secret"), Str("")},
        prices \in PriceConfigs,
        llm_key \in {None, Str("emergent-key")}}

\* nothing is set
NoEnviron ==
    [API_KEY |-> None, STRIPE_BASIC_PRICE |-> None, STRIPE_PRO_PRICE |-> None,
     STRIPE_BUSINESS_PRICE |-> None, EMERGENT_LLM_KEY |-> None]

\* HTTPBearer(auto_error=False): None without an Authorization header, with another
\* scheme or with an empty token, else the token
Credentials == {None, Str("secret"), Str("wrong")}

MaxTopicLength == 200

\* a body that is no JSON object
InvalidJson == [invalid_json |-> TRUE]

CheckoutTopics ==
    {"", "  ", "Python"}
    \cup {Padded(Repeat("a", len), n) :
            len \in {MaxTopicLength, MaxTopicLength + 1}, n \in 0..MaxPad}

CheckoutData ==
    {[topic |-> t, tier |-> tr] : t \in CheckoutTopics, tr \in {"basic", "gold"}}
    \cup {[topic |-> "Python"], [tier |-> "business"], InvalidJson}

ContentData == {[prompt |-> "Write a poem"], [prompt |-> " \n"], InvalidJson}

NoData == [none |-> TRUE]

WizbookRequests ==
    ({"create-checkout-session"} \X CheckoutData)
    \cup ({"products"} \X {NoData})
    \cup ({"generate-content"} \X ContentData)

NoReply == [status_code |-> 0]

\* no request is being handled
WizbookIdle ==
    /\ wb_pc = "idle"
    /\ endpoint = ""
    /\ credentials = None
    /\ data = NoData
    /\ authorized = FALSE
    /\ stripe_calls = <<>>
    /\ ai_calls = <<>>
    /\ answer = NoReply

\* the locals of a request that has not started
NoTask ==
    [pc |-> "idle", request |-> NoRequest, model_provider |-> "", model_name |-> "",
     style_instruction |-> "", system_message |-> "", user_prompt |-> "",
     attempt |-> 0, calls |-> <<>>, outcomes |-> <<>>, content |-> "",
     source |-> "none", now |-> NoDate, word_count |-> 0, book_order |-> NoOrder,
     http |-> NoAnswer, cancelled |-> FALSE, store_calls |-> <<>>]

----------------------------------------------------------------------------
(* The endpoint and the generator, one step per stretch of code between awaits *)

MaxAttempts == 3

\* the longest client session
MaxRequests == 2

ServerIdle ==
    /\ pc = "idle"
    /\ request = NoRequest
    /\ model_provider = ""
    /\ model_name = ""
    /\ style_instruction = ""
    /\ system_message = ""
    /\ user_prompt = ""
    /\ attempt = 0
    /\ calls = <<>>
    /\ outcomes = <<>>
    /\ content = ""
    /\ source = "none"
    /\ now = NoDate
    /\ word_count = 0
    /\ book_order = NoOrder
    /\ book_orders = {}
    /\ http = NoAnswer
    /\ requests = 0
    /\ cancelled = FALSE
    /\ store_calls = <<>>
    /\ generated_books = {}
    /\ get_answer = NoAnswer
    /\ peer = NoTask

Init ==
    /\ ServerIdle
    /\ environ = NoEnviron
    /\ WizbookIdle
    /\ AppIdle

\* POST /api/generate-book with a body that BookRequest accepts:
\* the endpoint calls ai_generator.generate_book(request)
PostGenerateBook(body) ==
    /\ pc = "idle"
    /\ BookRequestAccepts(body)
    /\ request' = BookRequest(body)
    /\ requests' = requests + 1
    /\ pc' = "generate_book"
    /\ UNCHANGED <<model_provider, model_name, style_instruction, system_message,
                   user_prompt, attempt, calls, outcomes, content, source, now,
                   word_count, book_order, book_orders, http>>
    /\ get_answer' = NoAnswer
    /\ UNCHANGED <<cancelled, store_calls, generated_books>>
    /\ UNCHANGED peer
    /\ UNCHANGED <<wizbook_vars, app_vars>>

\* POST /api/generate-book with a body that BookRequest does not accept: FastAPI
\* answers 422 and the endpoint is not called
PostRejected(body) ==
    /\ pc = "idle"
    /\ ~BookRequestAccepts(body)
    /\ requests' = requests + 1
    /\ http' = [status_code |-> 422]
    /\ pc' = "responded"
    /\ UNCHANGED <<request, model_provider, model_name, style_instruction,
                   system_message, user_prompt, attempt, calls, outcomes, content,
                   source, now, word_count, book_order, book_orders>>
    /\ get_answer' = NoAnswer
    /\ UNCHANGED <<cancelled, store_calls, generated_books>>
    /\ UNCHANGED peer
    /\ UNCHANGED <<wizbook_vars, app_vars>>

\* generate_book up to the for loop: strategy and prompts
BeginGenerateBook ==
    /\ pc = "generate_book"
    /\ LET strategy == SelectStrategy(request.topic)
       IN  /\ model_provider' = strategy.model_provider
           /\ model_name' = strategy.model_name
           /\ style_instruction' = strategy.style_instruction
           /\ system_message' = SystemMessage(request, strategy.style_instruction)
    /\ user_prompt' = UserPrompt(request)
    /\ attempt' = 0
    /\ pc' = "loop"
    /\ UNCHANGED <<request, calls, outcomes, content, source, now, word_count,
                   book_order, book_orders, http>>
    /\ UNCHANGED <<requests, cancelled, store_calls, generated_books, get_answer>>
    /\ UNCHANGED peer
    /\ UNCHANGED <<wizbook_vars, app_vars>>

\* one iteration of the loop up to "await chat.send_message(user_message)"
StartAttempt ==
    /\ pc = "loop"
    /\ attempt < MaxAttempts
    /\ calls' = Append(calls, [attempt |-> attempt,
                               model_provider |-> model_provider,
                               model_name |-> model_name,
                               system_message |-> system_message,
                               text |-> user_prompt])
    /\ pc' = "await"
    /\ UNCHANGED <<request, model_provider, model_name, style_instruction,
                   system_message, user_prompt, attempt, outcomes, content, source,
                   now, word_count, book_order, book_orders, http>>
    /\ UNCHANGED <<requests, cancelled, store_calls, generated_books, get_answer>>
    /\ UNCHANGED peer
    /\ UNCHANGED <<wizbook_vars, app_vars>>

\* Qualifies with the length taken of the response as it came, not of response.strip()
QualifiesUntrimmed(response) ==
    /\ ~response.none
    /\ response.text # ""
    /\ Len(response.text) > MinResponseLength

\* response and len(response.strip()) > 500
Qualifies(response) ==
    /\ ~response.none
    /\ response.text # ""
    /\ Len(Strip(response.text)) > MinResponseLength

\* SendMessageReturns keeping a qualifying response without returning: the loop goes on
SendMessageReturnsNoShortCircuit(response) ==
    /\ pc = "await"
    /\ IF Qualifies(response)
       THEN /\ content' = response.text
            /\ source' = "ai"
            /\ outcomes' = Append(outcomes, "accepted")
            /\ IF attempt + 1 < MaxAttempts
               THEN attempt' = attempt + 1 /\ pc' = "loop"
               ELSE attempt' = attempt /\ pc' = "returned"
       ELSE /\ outcomes' = Append(outcomes, "rejected")
            /\ attempt' = attempt + 1
            /\ pc' = "loop"
            /\ UNCHANGED <<content, source>>
    /\ UNCHANGED <<request, model_provider, model_name, style_instruction,
                   system_message, user_prompt, calls, now, word_count, book_order,
                   book_orders, http>>
    /\ UNCHANGED <<requests, cancelled, store_calls, generated_books, get_answer>>
    /\ UNCHANGED peer
    /\ UNCHANGED <<wizbook_vars, app_vars>>

\* chat.send_message returns: the response is returned as it is, or the loop goes on
SendMessageReturns(response) ==
    /\ pc = "await"
    /\ IF Qualifies(response)
       THEN /\ content' = response.text
            /\ source' = "ai"
            /\ outcomes' = Append(outcomes, "accepted")
            /\ pc' = "returned"
            /\ UNCHANGED attempt
       ELSE /\ outcomes' = Append(outcomes, "rejected")
            /\ attempt' = attempt + 1
            /\ pc' = "loop"
            /\ UNCHANGED <<content, source>>
    /\ UNCHANGED <<request, model_provider, model_name, style_instruction,
                   system_message, user_prompt, calls, now, word_count, book_order,
                   book_orders, http>>
    /\ UNCHANGED <<requests, cancelled, store_calls, generated_books, get_answer>>
    /\ UNCHANGED peer
    /\ UNCHANGED <<wizbook_vars, app_vars>>

\* SendMessageRaises with the exception of the last attempt re-raised: it reaches
\* the except clause of the endpoint, which answers 500
SendMessageRaisesLastPropagates ==
    /\ pc = "await"
    /\ outcomes' = Append(outcomes, "raised")
    /\ IF attempt < 2
       THEN /\ model_provider' = "openai"
            /\ model_name' = "gpt-4o-mini"
            /\ attempt' = attempt + 1
            /\ pc' = "loop"
            /\ UNCHANGED http
       ELSE /\ http' = [status_code |-> 500, detail |-> "Book generation failed"]
            /\ pc' = "responded"
            /\ UNCHANGED <<model_provider, model_name, attempt>>
    /\ UNCHANGED <<request, style_instruction, system_message, user_prompt, calls,
                   content, source, now, word_count, book_order, book_orders>>
    /\ UNCHANGED <<requests, cancelled, store_calls, generated_books, get_answer>>
    /\ UNCHANGED peer
    /\ UNCHANGED <<wizbook_vars, app_vars>>

\* SendMessageRaises without the change of model on a retry
SendMessageRaisesKeepsModel ==
    /\ pc = "await"
    /\ outcomes' = Append(outcomes, "raised")
    /\ attempt' = attempt + 1
    /\ pc' = "loop"
    /\ UNCHANGED <<request, model_provider, model_name, style_instruction,
                   system_message, user_prompt, calls, content, source, now,
                   word_count, book_order, book_orders, http>>
    /\ UNCHANGED <<requests, cancelled, store_calls, generated_books, get_answer>>
    /\ UNCHANGED peer
    /\ UNCHANGED <<wizbook_vars, app_vars>>

\* the except branch: LlmChat or send_message raised an Exception
SendMessageRaises ==
    /\ pc = "await"
    /\ outcomes' = Append(outcomes, "raised")
    /\ IF attempt < 2
       THEN /\ model_provider' = "openai"
            /\ model_name' = "gpt-4o-mini"
       ELSE UNCHANGED <<model_provider, model_name>>
    /\ attempt' = attempt + 1
    /\ pc' = "loop"
    /\ UNCHANGED <<request, style_instruction, system_message, user_prompt, calls,
                   content, source, now, word_count, book_order, book_orders, http>>
    /\ UNCHANGED <<requests, cancelled, store_calls, generated_books, get_answer>>
    /\ UNCHANGED peer
    /\ UNCHANGED <<wizbook_vars, app_vars>>

\* RequestCancelled with the CancelledError caught by "except Exception" of the loop
\* like any failure of the call: the loop goes on
RequestCancelledIsCaught ==
    /\ pc = "await"
    /\ cancelled' = TRUE
    /\ outcomes' = Append(outcomes, "raised")
    /\ IF attempt < 2
       THEN /\ model_provider' = "openai"
            /\ model_name' = "gpt-4o-mini"
       ELSE UNCHANGED <<model_provider, model_name>>
    /\ attempt' = attempt + 1
    /\ pc' = "loop"
    /\ UNCHANGED <<request, style_instruction, system_message, user_prompt, calls,
                   content, source, now, word_count, book_order, book_orders, http>>
    /\ UNCHANGED <<requests, store_calls, generated_books, get_answer>>
    /\ UNCHANGED peer
    /\ UNCHANGED <<wizbook_vars, app_vars>>

\* the request is cancelled while send_message is awaited: asyncio.CancelledError is
\* no Exception, neither except clause catches it
RequestCancelled ==
    /\ pc = "await"
    /\ pc' = "cancelled"
    /\ UNCHANGED <<request, model_provider, model_name, style_instruction,
                   system_message, user_prompt, attempt, calls, outcomes, content,
                   source, now, word_count, book_order, book_orders, http>>
    /\ cancelled' = TRUE
    /\ UNCHANGED <<requests, store_calls, generated_books, get_answer>>
    /\ UNCHANGED peer
    /\ UNCHANGED <<wizbook_vars, app_vars>>

\* UseFallback raising instead of returning the template: the endpoint answers 500
UseFallbackRaises(date) ==
    /\ pc = "loop"
    /\ attempt = MaxAttempts
    /\ http' = [status_code |-> 500, detail |-> "Book generation failed"]
    /\ pc' = "responded"
    /\ UNCHANGED <<request, model_provider, model_name, style_instruction,
                   system_message, user_prompt, attempt, calls, outcomes, content,
                   source, now, word_count, book_order, book_orders>>
    /\ UNCHANGED <<requests, cancelled, store_calls, generated_books, get_answer>>
    /\ UNCHANGED peer
    /\ UNCHANGED <<wizbook_vars, app_vars>>

\* after the loop: return self._generate_enhanced_fallback_book(request), with
\* date what datetime.now() gives
UseFallback(date) ==
    /\ pc = "loop"
    /\ attempt = MaxAttempts
    /\ now' = date
    /\ content' = _generate_enhanced_fallback_book(request, date)
    /\ source' = "fallback"
    /\ pc' = "returned"
    /\ UNCHANGED <<request, model_provider, model_name, style_instruction,
                   system_message, user_prompt, attempt, calls, outcomes, word_count,
                   book_order, book_orders, http>>
    /\ UNCHANGED <<requests, cancelled, store_calls, generated_books, get_answer>>
    /\ UNCHANGED peer
    /\ UNCHANGED <<wizbook_vars, app_vars>>

\* CreateOrder with the status of the order telling a fallback body from a generated one
CreateOrderStatusBySource(utcnow) ==
    /\ pc = "returned"
    /\ word_count' = SplitCount(content)
    /\ book_order' = [id |-> uuid4(requests),
                      book_request |-> request,
                      content |-> content,
                      status |-> IF source = "fallback" THEN "fallback" ELSE "generated",
                      word_count |-> word_count',
                      created_at |-> utcnow]
    /\ pc' = "insert"
    /\ UNCHANGED <<request, model_provider, model_name, style_instruction,
                   system_message, user_prompt, attempt, calls, outcomes, content,
                   source, now, book_orders, http>>
    /\ store_calls' = Append(store_calls, book_order')
    /\ UNCHANGED <<requests, cancelled, generated_books, get_answer>>
    /\ UNCHANGED peer
    /\ UNCHANGED <<wizbook_vars, app_vars>>

\* the endpoint after generate_book returned: word count and BookOrder, with utcnow
\* what datetime.utcnow() gives and the id of the order what uuid4() gives, up to
\* "await db.book_orders.insert_one(book_order.dict())"
CreateOrder(utcnow) ==
    /\ pc = "returned"
    /\ word_count' = SplitCount(content)
    /\ book_order' = [id |-> uuid4(requests),
                      book_request |-> request,
                      content |-> content,
                      status |-> "generated",
                      word_count |-> word_count',
                      created_at |-> utcnow]
    /\ pc' = "insert"
    /\ UNCHANGED <<request, model_provider, model_name, style_instruction,
                   system_message, user_prompt, attempt, calls, outcomes, content,
                   source, now, book_orders, http>>
    /\ store_calls' = Append(store_calls, book_order')
    /\ UNCHANGED <<requests, cancelled, generated_books, get_answer>>
    /\ UNCHANGED peer
    /\ UNCHANGED <<wizbook_vars, app_vars>>

\* insert_one returns: the endpoint answers with the BookResponse
InsertOneReturns ==
    /\ pc = "insert"
    /\ book_orders' = book_orders \cup {book_order}
    /\ http' = [status_code |-> 200,
                body |-> [id |-> book_order.id,
                          topic |-> request.topic,
                          audience |-> request.audience,
                          content |-> content,
                          status |-> "completed",
                          tier |-> request.tier,
                          word_count |-> word_count,
                          created_at |-> book_order.created_at]]
    /\ pc' = "responded"
    /\ UNCHANGED <<request, model_provider, model_name, style_instruction,
                   system_message, user_prompt, attempt, calls, outcomes, content,
                   source, now, word_count, book_order>>
    /\ generated_books' = generated_books \cup {http'.body}
    /\ UNCHANGED <<requests, cancelled, store_calls, get_answer>>
    /\ UNCHANGED peer
    /\ UNCHANGED <<wizbook_vars, app_vars>>

\* InsertOneRaises with the insert tried a second time before the endpoint gives up
InsertOneRaisesRetried ==
    /\ pc = "insert"
    /\ IF Len(store_calls) < 2
       THEN /\ store_calls' = Append(store_calls, book_order)
            /\ UNCHANGED <<pc, http>>
       ELSE /\ http' = [status_code |-> 500, detail |-> "Book generation failed"]
            /\ pc' = "responded"
            /\ UNCHANGED store_calls
    /\ UNCHANGED <<request, model_provider, model_name, style_instruction,
                   system_message, user_prompt, attempt, calls, outcomes, content,
                   source, now, word_count, book_order, book_orders>>
    /\ UNCHANGED <<requests, cancelled, generated_books, get_answer>>
    /\ UNCHANGED peer
    /\ UNCHANGED <<wizbook_vars, app_vars>>

\* insert_one raises: the endpoint's except clause answers 500
InsertOneRaises ==
    /\ pc = "insert"
    /\ http' = [status_code |-> 500, detail |-> "Book generation failed"]
    /\ pc' = "responded"
    /\ UNCHANGED <<request, model_provider, model_name, style_instruction,
                   system_message, user_prompt, attempt, calls, outcomes, content,
                   source, now, word_count, book_order, book_orders>>
    /\ UNCHANGED <<requests, cancelled, store_calls, generated_books, get_answer>>
    /\ UNCHANGED peer
    /\ UNCHANGED <<wizbook_vars, app_vars>>

\* the request is over: its locals are gone, the server takes the next one
NextRequest ==
    /\ pc \in {"responded", "cancelled"}
    /\ requests < MaxRequests
    /\ pc' = "idle"
    /\ request' = NoRequest
    /\ model_provider' = ""
    /\ model_name' = ""
    /\ style_instruction' = ""
    /\ system_message' = ""
    /\ user_prompt' = ""
    /\ attempt' = 0
    /\ calls' = <<>>
    /\ outcomes' = <<>>
    /\ content' = ""
    /\ source' = "none"
    /\ now' = NoDate
    /\ word_count' = 0
    /\ book_order' = NoOrder
    /\ http' = NoAnswer
    /\ cancelled' = FALSE
    /\ store_calls' = <<>>
    /\ get_answer' = NoAnswer
    /\ UNCHANGED <<book_orders, requests, generated_books>>
    /\ UNCHANGED peer
    /\ UNCHANGED <<wizbook_vars, app_vars>>

\* get_book with find_one taking any stored order, the filter on id left out
GetBookIgnoresId(book_id) ==
    /\ pc \in {"idle", "responded", "cancelled"}
    /\ get_answer' =
        IF book_orders = {}
        THEN [book_id |-> book_id, status_code |-> 404, detail |-> "Book not found"]
        ELSE [book_id |-> book_id, status_code |-> 200,
              body |-> CHOOSE o \in book_orders : TRUE]
    /\ UNCHANGED <<pc, request, model_provider, model_name, style_instruction,
                   system_message, user_prompt, attempt, calls, outcomes, content,
                   source, now, word_count, book_order, book_orders, http>>
    /\ UNCHANGED <<requests, cancelled, store_calls, generated_books>>
    /\ UNCHANGED peer
    /\ UNCHANGED <<wizbook_vars, app_vars>>

\* GET /api/book/{book_id} while no generate-book request is running
GetBook(book_id) ==
    /\ pc \in {"idle", "responded", "cancelled"}
    /\ LET found == {o \in book_orders : o.id = book_id}
       IN  get_answer' =
            IF found = {}
            THEN [book_id |-> book_id, status_code |-> 404, detail |-> "Book not found"]
            ELSE [book_id |-> book_id, status_code |-> 200,
                  body |-> CHOOSE o \in found : TRUE]
    /\ UNCHANGED <<pc, request, model_provider, model_name, style_instruction,
                   system_message, user_prompt, attempt, calls, outcomes, content,
                   source, now, word_count, book_order, book_orders, http>>
    /\ UNCHANGED <<requests, cancelled, store_calls, generated_books>>
    /\ UNCHANGED peer
    /\ UNCHANGED <<wizbook_vars, app_vars>>

\* the locals of the request that is running
Task ==
    [pc |-> pc, request |-> request, model_provider |-> model_provider,
     model_name |-> model_name, style_instruction |-> style_instruction,
     system_message |-> system_message, user_prompt |-> user_prompt,
     attempt |-> attempt, calls |-> calls, outcomes |-> outcomes, content |-> content,
     source |-> source, now |-> now, word_count |-> word_count,
     book_order |-> book_order, http |-> http, cancelled |-> cancelled,
     store_calls |-> store_calls]

\* SwitchTask with model_provider and model_name kept on the shared ai_generator
\* instead of in the locals of generate_book: they stay as the other request left them
SwitchTaskSharedModel ==
    /\ pc \in {"idle", "await", "returned"}
    /\ peer' = Task
    /\ pc' = peer.pc
    /\ request' = peer.request
    /\ style_instruction' = peer.style_instruction
    /\ system_message' = peer.system_message
    /\ user_prompt' = peer.user_prompt
    /\ attempt' = peer.attempt
    /\ calls' = peer.calls
    /\ outcomes' = peer.outcomes
    /\ content' = peer.content
    /\ source' = peer.source
    /\ now' = peer.now
    /\ word_count' = peer.word_count
    /\ book_order' = peer.book_order
    /\ http' = peer.http
    /\ cancelled' = peer.cancelled
    /\ store_calls' = peer.store_calls
    /\ UNCHANGED <<model_provider, model_name>>
    /\ UNCHANGED <<book_orders, requests, generated_books, get_answer>>
    /\ UNCHANGED <<wizbook_vars, app_vars>>

\* the event loop runs the other request: the running one is suspended at an await
\* (or has not started, or generate_book has returned), its locals are kept and the
\* locals of the other one are back; the store and the ai_generator object, which
\* has no attribute but api_key, are the same for both
SwitchTask ==
    /\ pc \in {"idle", "await", "returned"}
    /\ peer' = Task
    /\ pc' = peer.pc
    /\ request' = peer.request
    /\ model_provider' = peer.model_provider
    /\ model_name' = peer.model_name
    /\ style_instruction' = peer.style_instruction
    /\ system_message' = peer.system_message
    /\ user_prompt' = peer.user_prompt
    /\ attempt' = peer.attempt
    /\ calls' = peer.calls
    /\ outcomes' = peer.outcomes
    /\ content' = peer.content
    /\ source' = peer.source
    /\ now' = peer.now
    /\ word_count' = peer.word_count
    /\ book_order' = peer.book_order
    /\ http' = peer.http
    /\ cancelled' = peer.cancelled
    /\ store_calls' = peer.store_calls
    /\ UNCHANGED <<book_orders, requests, generated_books, get_answer>>
    /\ UNCHANGED <<wizbook_vars, app_vars>>

\* one generate-book request, taken from every input
Next ==
    \/ \E body \in Bodies : PostGenerateBook(body)
    \/ \E body \in Bodies : PostRejected(body)
    \/ BeginGenerateBook
    \/ StartAttempt
    \/ \E response \in Responses : SendMessageReturns(response)
    \/ SendMessageRaises
    \/ RequestCancelled
    \/ \E date \in Dates : UseFallback(date)
    \/ \E utcnow \in Timestamps : CreateOrder(utcnow)
    \/ InsertOneReturns
    \/ InsertOneRaises

Spec == Init /\ [][Next]_vars

\* a client session: up to MaxRequests generate-book requests one after the other,
\* and get_book between them, on fewer inputs
SessionBodies ==
    {[topic |-> "Healthy Living Tips", audience |-> "beginners", tier |-> "basic"],
     [topic |-> "A Creative Short Story", audience |-> "Pro Devs"],
     [audience |-> "beginners"]}

SessionResponses == {Str(""), Str(Repeat("lorem ipsum\n", 50))}

SessionDates == {[year |-> 2025, month |-> 5]}

SessionTimestamps == {[year |-> 2025, month |-> 5, day |-> 31]}

BookIds == {uuid4(k) : k \in 1..MaxRequests} \cup {FakeId}

SessionNext ==
    \/ \E body \in SessionBodies : PostGenerateBook(body)
    \/ \E body \in SessionBodies : PostRejected(body)
    \/ BeginGenerateBook
    \/ StartAttempt
    \/ \E response \in SessionResponses : SendMessageReturns(response)
    \/ SendMessageRaises
    \/ RequestCancelled
    \/ \E date \in SessionDates : UseFallback(date)
    \/ \E utcnow \in SessionTimestamps : CreateOrder(utcnow)
    \/ InsertOneReturns
    \/ InsertOneRaises
    \/ NextRequest
    \/ \E book_id \in BookIds : GetBook(book_id)

SpecSession == Init /\ [][SessionNext]_vars

\* two invocations of generate_book on the one ai_generator, interleaved at the awaits
ConcurrentBodies ==
    {[topic |-> "Healthy Living Tips", audience |-> "beginners", tier |-> "basic"],
     [topic |-> "A Creative Short Story", audience |-> "Pro Devs"]}

ConcurrentNext ==
    \/ \E body \in ConcurrentBodies : PostGenerateBook(body)
    \/ BeginGenerateBook
    \/ StartAttempt
    \/ \E response \in SessionResponses : SendMessageReturns(response)
    \/ SendMessageRaises
    \/ \E date \in SessionDates : UseFallback(date)
    \/ SwitchTask

SpecConcurrent == Init /\ [][ConcurrentNext]_vars

----------------------------------------------------------------------------
(* src/final-book/main.py: the protected endpoints *)

\* STRIPE_PRODUCTS, read from the environment when the module is loaded
STRIPE_PRODUCTS ==
    [basic |-> [price_id |-> environ.STRIPE_BASIC_PRICE, price |-> 47],
     pro |-> [price_id |-> environ.STRIPE_PRO_PRICE, price |-> 97],
     business |-> [price_id |-> environ.STRIPE_BUSINESS_PRICE, price |-> 497]]

validate_tier(tier) == IF tier \in DOMAIN STRIPE_PRODUCTS THEN tier ELSE "pro"

\* dict.get(key, default)
Get(body, key, default) == IF key \in DOMAIN body THEN body[key] ELSE default

\* str.startswith(prefix)
StartsWith(s, prefix) ==
    /\ Len(s) >= Len(prefix)
    /\ SubSeq(s, 1, Len(prefix)) = prefix

\* s[:n]
Prefix(s, n) == IF Len(s) <= n THEN s ELSE SubSeq(s, 1, n)

\* http_exception_handler: the answer to a raised HTTPException
HTTPException(status_code, detail) == [status_code |-> status_code, error |-> detail]

\* a request to one of the protected endpoints arrives
WizbookRequest(route, token, body) ==
    /\ wb_pc = "idle"
    /\ endpoint' = route
    /\ credentials' = token
    /\ data' = body
    /\ wb_pc' = "verify"
    /\ UNCHANGED <<environ, authorized, stripe_calls, ai_calls, answer>>
    /\ UNCHANGED <<server_vars, app_vars>>

\* verify_api_key letting every token through when API_KEY is not set
verify_api_key_unset_is_open ==
    /\ wb_pc = "verify"
    /\ IF credentials.none
       THEN /\ answer' = HTTPException(401, "Missing authorization token")
            /\ wb_pc' = "answered"
            /\ UNCHANGED authorized
       ELSE IF ~environ.API_KEY.none /\ credentials # environ.API_KEY
       THEN /\ answer' = HTTPException(401, "Invalid API key")
            /\ wb_pc' = "answered"
            /\ UNCHANGED authorized
       ELSE /\ authorized' = TRUE
            /\ wb_pc' = "handler"
            /\ UNCHANGED answer
    /\ UNCHANGED <<environ, endpoint, credentials, data, stripe_calls, ai_calls>>
    /\ UNCHANGED <<server_vars, app_vars>>

\* the dependency of the three handlers: expected_key is os.getenv("API_KEY")
verify_api_key ==
    /\ wb_pc = "verify"
    /\ IF credentials.none
       THEN /\ answer' = HTTPException(401, "Missing authorization token")
            /\ wb_pc' = "answered"
            /\ UNCHANGED authorized
       ELSE IF credentials # environ.API_KEY
       THEN /\ answer' = HTTPException(401, "Invalid API key")
            /\ wb_pc' = "answered"
            /\ UNCHANGED authorized
       ELSE /\ authorized' = TRUE
            /\ wb_pc' = "handler"
            /\ UNCHANGED answer
    /\ UNCHANGED <<environ, endpoint, credentials, data, stripe_calls, ai_calls>>
    /\ UNCHANGED <<server_vars, app_vars>>

\* create_checkout_session up to stripe.checkout.Session.create; the HTTPException
\* raised inside the try (400 for the topic, 500 for the price) is an Exception:
\* "except Exception" catches it and raises HTTPException(500, "Internal server
\* error"), as it does for a body that is no JSON object
create_checkout_session ==
    /\ wb_pc = "handler"
    /\ endpoint = "create-checkout-session"
    /\ IF data = InvalidJson
       THEN /\ answer' = HTTPException(500, "Internal server error")
            /\ wb_pc' = "answered"
            /\ UNCHANGED stripe_calls
       ELSE LET topic == Strip(Get(data, "topic", ""))
                tier == validate_tier(Get(data, "tier", "pro"))
                price_id == STRIPE_PRODUCTS[tier].price_id
            IN  IF topic = "" \/ Len(topic) > MaxTopicLength
                THEN /\ answer' = HTTPException(500, "Internal server error")
                     /\ wb_pc' = "answered"
                     /\ UNCHANGED stripe_calls
                ELSE IF price_id.none \/ price_id.text = ""
                        \/ ~StartsWith(price_id.text, "price_")
                THEN /\ answer' = HTTPException(500, "Internal server error")
                     /\ wb_pc' = "answered"
                     /\ UNCHANGED stripe_calls
                ELSE /\ stripe_calls' =
                        Append(stripe_calls,
                               [price |-> price_id.text,
                                metadata |-> [topic |-> Prefix(topic, 100),
                                              tier |-> tier]])
                     /\ wb_pc' = "stripe"
                     /\ UNCHANGED answer
    /\ UNCHANGED <<environ, endpoint, credentials, data, authorized, ai_calls>>
    /\ UNCHANGED <<server_vars, app_vars>>

\* Session.create returns the session: the handler answers 200
SessionCreateReturns ==
    /\ wb_pc = "stripe"
    /\ LET tier == validate_tier(Get(data, "tier", "pro"))
       IN  answer' = [status_code |-> 200,
                      content |-> [status |-> "success", tier |-> tier,
                                   price |-> STRIPE_PRODUCTS[tier].price]]
    /\ wb_pc' = "answered"
    /\ UNCHANGED <<environ, endpoint, credentials, data, authorized, stripe_calls,
                   ai_calls>>
    /\ UNCHANGED <<server_vars, app_vars>>

\* Session.create raises: a StripeError or another Exception
SessionCreateRaises(stripe_error) ==
    /\ wb_pc = "stripe"
    /\ answer' = IF stripe_error
                 THEN HTTPException(500, "Payment processing error")
                 ELSE HTTPException(500, "Internal server error")
    /\ wb_pc' = "answered"
    /\ UNCHANGED <<environ, endpoint, credentials, data, authorized, stripe_calls,
                   ai_calls>>
    /\ UNCHANGED <<server_vars, app_vars>>

get_products ==
    /\ wb_pc = "handler"
    /\ endpoint = "products"
    /\ answer' = [status_code |-> 200,
                  content |-> [products |->
                      [tier \in DOMAIN STRIPE_PRODUCTS |->
                          [price |-> STRIPE_PRODUCTS[tier].price,
                           price_id |-> STRIPE_PRODUCTS[tier].price_id]]]]
    /\ wb_pc' = "answered"
    /\ UNCHANGED <<environ, endpoint, credentials, data, authorized, stripe_calls,
                   ai_calls>>
    /\ UNCHANGED <<server_vars, app_vars>>

\* generate_content up to the post of EmergentAI.generate_content, which returns
\* None at once without an api key; the HTTPException raised inside the try (400,
\* 503) is caught by "except Exception", which raises HTTPException(500)
generate_content ==
    /\ wb_pc = "handler"
    /\ endpoint = "generate-content"
    /\ IF data = InvalidJson
       THEN /\ answer' = HTTPException(500, "Content generation failed")
            /\ wb_pc' = "answered"
            /\ UNCHANGED ai_calls
       ELSE LET prompt == Strip(Get(data, "prompt", ""))
            IN  IF prompt = ""
                THEN /\ answer' = HTTPException(500, "Content generation failed")
                     /\ wb_pc' = "answered"
                     /\ UNCHANGED ai_calls
                ELSE IF environ.EMERGENT_LLM_KEY.none
                        \/ environ.EMERGENT_LLM_KEY.text = ""
                THEN /\ answer' = HTTPException(500, "Content generation failed")
                     /\ wb_pc' = "answered"
                     /\ UNCHANGED ai_calls
                ELSE /\ ai_calls' = Append(ai_calls, [prompt |-> prompt,
                                                     model |-> "emergent-ultra"])
                     /\ wb_pc' = "ai"
                     /\ UNCHANGED answer
    /\ UNCHANGED <<environ, endpoint, credentials, data, authorized, stripe_calls>>
    /\ UNCHANGED <<server_vars, app_vars>>

\* the post returns a completion: the handler answers with its text
CompletionReturns(text) ==
    /\ wb_pc = "ai"
    /\ answer' = [status_code |-> 200,
                  content |-> [status |-> "success", content |-> text,
                               model |-> "emergent-ultra"]]
    /\ wb_pc' = "answered"
    /\ UNCHANGED <<environ, endpoint, credentials, data, authorized, stripe_calls,
                   ai_calls>>
    /\ UNCHANGED <<server_vars, app_vars>>

\* the post raises or answers an error status: EmergentAI.generate_content returns
\* None, the 503 of the handler is caught and becomes 500
CompletionFails ==
    /\ wb_pc = "ai"
    /\ answer' = HTTPException(500, "Content generation failed")
    /\ wb_pc' = "answered"
    /\ UNCHANGED <<environ, endpoint, credentials, data, authorized, stripe_calls,
                   ai_calls>>
    /\ UNCHANGED <<server_vars, app_vars>>

\* the process starts with some environment; no request yet
WizbookInit ==
    /\ ServerIdle
    /\ environ \in Environs
    /\ WizbookIdle
    /\ AppIdle

WizbookNext ==
    \/ \E r \in WizbookRequests : \E token \in Credentials :
        WizbookRequest(r[1], token, r[2])
    \/ verify_api_key
    \/ create_checkout_session
    \/ SessionCreateReturns
    \/ \E stripe_error \in BOOLEAN : SessionCreateRaises(stripe_error)
    \/ get_products
    \/ generate_content
    \/ \E text \in {"", "Roses are red"} : CompletionReturns(text)
    \/ CompletionFails

SpecWizbook == WizbookInit /\ [][WizbookNext]_vars

----------------------------------------------------------------------------
(* src/main.py: DataProcessor and Application *)

\* str.upper()
RECURSIVE UpperRange(_, _, _)
UpperRange(s, lo, hi) ==
    IF lo > hi THEN ""
    ELSE IF lo = hi THEN UpperChar(Char(s, lo))
    ELSE LET mid == (lo + hi) \div 2
         IN  UpperRange(s, lo, mid) \o UpperRange(s, mid + 1, hi)

Upper(s) == UpperRange(s, 1, Len(s))

\* item.get('id', 'unknown') raises AttributeError for an item that is no dict;
\* _process_single_item raises ValueError for a dict without 'id'
ItemRaises(item) == ~IsDict(item) \/ "id" \notin DOMAIN item

\* the item _process_single_item returns: a copy with the metadata and the
\* transformations; an assignment to a key the item has replaces its value
_process_single_item(item) ==
    LET with_metadata ==
            [processed_at |-> PyStr(UtcNowIso), processing_version |-> PyStr("1.0.0")]
                @@ item
        with_name ==
            IF "name" \in DOMAIN with_metadata /\ with_metadata.name.type = "str"
            THEN [name_upper |-> PyStr(Upper(with_metadata.name.str)),
                  name_length |-> PyInt(Len(with_metadata.name.str))] @@ with_metadata
            ELSE with_metadata
    IN  IF "value" \in DOMAIN with_name /\ with_name.value.type \in {"int", "float", "bool"}
        THEN [value_doubled |-> PyInt(with_name.value.num * 2)] @@ with_name
        ELSE with_name

\* metrics.increment_processed / increment_errors / increment_retries
Increment(m, field) == [m EXCEPT ![field] = @ + 1]

\* signal.SIGINT or signal.SIGTERM arrives: _signal_handler sets the event
_signal_handler ==
    /\ app_pc # "returned"
    /\ ~shutdown_event
    /\ shutdown_event' = TRUE
    /\ UNCHANGED <<max_retries, app_pc, health_status, shutdown_at_return, input_data,
                   index, processed_data, processed_count, metrics, save_attempt,
                   write_outcomes, sleeps, success, file_written, exit_code, run_result>>
    /\ UNCHANGED <<server_vars, wizbook_vars>>

\* Application.run up to the try
run ==
    /\ app_pc = "constructed"
    /\ exit_code' = 0
    /\ health_status' = "RUNNING"
    /\ app_pc' = "load"
    /\ UNCHANGED <<max_retries, shutdown_event, shutdown_at_return, input_data, index,
                   processed_data, processed_count, metrics, save_attempt, write_outcomes,
                   sleeps, success, file_written, run_result>>
    /\ UNCHANGED <<server_vars, wizbook_vars>>

\* sample_data = self._load_sample_data(); the call of process_data(sample_data)
_load_sample_data ==
    /\ app_pc = "load"
    /\ input_data' = SampleData
    /\ app_pc' = "process_data"
    /\ UNCHANGED <<max_retries, health_status, shutdown_event, shutdown_at_return, index,
                   processed_data, processed_count, metrics, save_attempt, write_outcomes,
                   sleeps, success, file_written, exit_code, run_result>>
    /\ UNCHANGED <<server_vars, wizbook_vars>>

\* process_data up to its loop: an empty input returns [] at once
process_data ==
    /\ app_pc = "process_data"
    /\ processed_data' = <<>>
    /\ index' = 0
    /\ IF input_data = <<>>
       THEN /\ app_pc' = "check"
            /\ shutdown_at_return' = shutdown_event
       ELSE /\ app_pc' = "for_item"
            /\ UNCHANGED shutdown_at_return
    /\ UNCHANGED <<max_retries, health_status, shutdown_event, input_data,
                   processed_count, metrics, save_attempt, write_outcomes, sleeps,
                   success, file_written, exit_code, run_result>>
    /\ UNCHANGED <<server_vars, wizbook_vars>>

\* one iteration of the loop, with an item that raises skipped and not counted
ProcessItemErrorNotCounted ==
    /\ app_pc = "for_item"
    /\ index < Len(input_data)
    /\ LET item == input_data[index + 1]
       IN  IF ItemRaises(item)
           THEN UNCHANGED <<processed_data, processed_count, metrics>>
           ELSE /\ processed_data' = Append(processed_data, _process_single_item(item))
                /\ processed_count' = processed_count + 1
                /\ metrics' = Increment(metrics, "items_processed")
    /\ index' = index + 1
    /\ UNCHANGED <<max_retries, app_pc, health_status, shutdown_event, shutdown_at_return,
                   input_data, save_attempt, write_outcomes, sleeps, success,
                   file_written, exit_code, run_result>>
    /\ UNCHANGED <<server_vars, wizbook_vars>>

\* one iteration of the loop of process_data: the try and its "except Exception"
ProcessItem ==
    /\ app_pc = "for_item"
    /\ index < Len(input_data)
    /\ LET item == input_data[index + 1]
       IN  IF ItemRaises(item)
           THEN /\ metrics' = Increment(metrics, "errors_count")
                /\ UNCHANGED <<processed_data, processed_count>>
           ELSE /\ processed_data' = Append(processed_data, _process_single_item(item))
                /\ processed_count' = processed_count + 1
                /\ metrics' = Increment(metrics, "items_processed")
    /\ index' = index + 1
    /\ UNCHANGED <<max_retries, app_pc, health_status, shutdown_event, shutdown_at_return,
                   input_data, save_attempt, write_outcomes, sleeps, success,
                   file_written, exit_code, run_result>>
    /\ UNCHANGED <<server_vars, wizbook_vars>>

\* the loop is exhausted: return processed_data
ProcessDataReturns ==
    /\ app_pc = "for_item"
    /\ index = Len(input_data)
    /\ app_pc' = "check"
    /\ shutdown_at_return' = shutdown_event
    /\ UNCHANGED <<max_retries, health_status, shutdown_event, input_data, index,
                   processed_data, processed_count, metrics, save_attempt, write_outcomes,
                   sleeps, success, file_written, exit_code, run_result>>
    /\ UNCHANGED <<server_vars, wizbook_vars>>

\* the return of run with the finally block left out
ReturnFromRunWithoutFinally(value) ==
    /\ app_pc' = "returned"
    /\ run_result' = value
    /\ UNCHANGED health_status

\* the finally block of run, update_status(TERMINATED), and the return of value
ReturnFromRun(value) ==
    /\ app_pc' = "returned"
    /\ run_result' = value
    /\ health_status' = "TERMINATED"

\* the check of the event, with the event not looked at
CheckShutdownNotLookedAt ==
    /\ app_pc = "check"
    /\ app_pc' = "save_results"
    /\ UNCHANGED <<health_status, run_result>>
    /\ UNCHANGED <<max_retries, shutdown_event, shutdown_at_return, input_data, index,
                   processed_data, processed_count, metrics, save_attempt, write_outcomes,
                   sleeps, success, file_written, exit_code>>
    /\ UNCHANGED <<server_vars, wizbook_vars>>

\* "if self.shutdown_event.is_set(): return 130", else the call of save_results
CheckShutdown ==
    /\ app_pc = "check"
    /\ IF shutdown_event
       THEN ReturnFromRun(130)
       ELSE /\ app_pc' = "save_results"
            /\ UNCHANGED <<health_status, run_result>>
    /\ UNCHANGED <<max_retries, shutdown_event, shutdown_at_return, input_data, index,
                   processed_data, processed_count, metrics, save_attempt, write_outcomes,
                   sleeps, success, file_written, exit_code>>
    /\ UNCHANGED <<server_vars, wizbook_vars>>

\* save_results up to its loop; range(max_attempts) is empty when max_attempts <= 0,
\* and the function then ends without a return statement: it returns None
save_results ==
    /\ app_pc = "save_results"
    /\ save_attempt' = 0
    /\ IF max_retries + 1 <= 0
       THEN /\ success' = "None"
            /\ app_pc' = "saved"
       ELSE /\ app_pc' = "write"
            /\ UNCHANGED success
    /\ UNCHANGED <<max_retries, health_status, shutdown_event, shutdown_at_return,
                   input_data, index, processed_data, processed_count, metrics,
                   write_outcomes, sleeps, file_written, exit_code, run_result>>
    /\ UNCHANGED <<server_vars, wizbook_vars>>

\* an attempt writes the file: return True
WriteSucceeds ==
    /\ app_pc = "write"
    /\ write_outcomes' = Append(write_outcomes, "written")
    /\ file_written' = TRUE
    /\ success' = "True"
    /\ app_pc' = "saved"
    /\ UNCHANGED <<max_retries, health_status, shutdown_event, shutdown_at_return,
                   input_data, index, processed_data, processed_count, metrics,
                   save_attempt, sleeps, exit_code, run_result>>
    /\ UNCHANGED <<server_vars, wizbook_vars>>

\* an attempt raises an Exception: count it, then sleep and go on, or return False
WriteFails ==
    /\ app_pc = "write"
    /\ write_outcomes' = Append(write_outcomes, "failed")
    /\ metrics' = Increment(Increment(metrics, "errors_count"), "retry_count")
    /\ IF save_attempt < (max_retries + 1) - 1
       THEN /\ sleeps' = Append(sleeps, 2 ^ save_attempt)
            /\ save_attempt' = save_attempt + 1
            /\ UNCHANGED <<success, app_pc>>
       ELSE /\ success' = "False"
            /\ app_pc' = "saved"
            /\ UNCHANGED <<sleeps, save_attempt>>
    /\ UNCHANGED <<max_retries, health_status, shutdown_event, shutdown_at_return,
                   input_data, index, processed_data, processed_count, file_written,
                   exit_code, run_result>>
    /\ UNCHANGED <<server_vars, wizbook_vars>>

\* run after save_results: "if not success: exit_code = 1", the metrics, and
\* update_status(TERMINATED) at the end of the try
AfterSave ==
    /\ app_pc = "saved"
    /\ exit_code' = IF success = "True" THEN exit_code ELSE 1
    /\ health_status' = "TERMINATED"
    /\ app_pc' = "finally"
    /\ UNCHANGED <<max_retries, shutdown_event, shutdown_at_return, input_data, index,
                   processed_data, processed_count, metrics, save_attempt, write_outcomes,
                   sleeps, success, file_written, run_result>>
    /\ UNCHANGED <<server_vars, wizbook_vars>>

\* the try is left at its end: finally, then "return exit_code"
RunReturns ==
    /\ app_pc = "finally"
    /\ ReturnFromRun(exit_code)
    /\ UNCHANGED <<max_retries, shutdown_event, shutdown_at_return, input_data, index,
                   processed_data, processed_count, metrics, save_attempt, write_outcomes,
                   sleeps, success, file_written, exit_code>>
    /\ UNCHANGED <<server_vars, wizbook_vars>>

\* an exception leaves a call of the try (loading, processing, saving, the
\* metrics): "except KeyboardInterrupt" gives 130, "except Exception" gives 1
RunRaises(exception) ==
    /\ app_pc \in {"load", "process_data", "for_item", "save_results", "write", "saved"}
    /\ exit_code' = IF exception = "KeyboardInterrupt" THEN 130 ELSE 1
    /\ ReturnFromRun(exit_code')
    /\ UNCHANGED <<max_retries, shutdown_event, shutdown_at_return, input_data, index,
                   processed_data, processed_count, metrics, save_attempt, write_outcomes,
                   sleeps, success, file_written>>
    /\ UNCHANGED <<server_vars, wizbook_vars>>

\* main(): the configuration of the command line, Application(config)
AppInit ==
    /\ ServerIdle
    /\ environ = NoEnviron
    /\ WizbookIdle
    /\ max_retries \in MaxRetriesValues
    /\ app_pc = "constructed"
    /\ input_data = <<>>
    /\ AppConstructed

AppNext ==
    \/ _signal_handler
    \/ run
    \/ _load_sample_data
    \/ process_data
    \/ ProcessItem
    \/ ProcessDataReturns
    \/ CheckShutdown
    \/ save_results
    \/ WriteSucceeds
    \/ WriteFails
    \/ AfterSave
    \/ RunReturns
    \/ \E exception \in {"KeyboardInterrupt", "Exception"} : RunRaises(exception)

SpecApp == AppInit /\ [][AppNext]_vars

\* a DataProcessor of a fresh application is given a list of items
ProcessInit ==
    /\ ServerIdle
    /\ environ = NoEnviron
    /\ WizbookIdle
    /\ max_retries = DefaultMaxRetries
    /\ app_pc = "process_data"
    /\ input_data \in InputLists
    /\ AppConstructed

ProcessNext ==
    \/ process_data
    \/ ProcessItem
    \/ ProcessDataReturns

SpecProcess == ProcessInit /\ [][ProcessNext]_vars

----------------------------------------------------------------------------
(* Properties *)

\* the number of whitespace-delimited tokens of s, counted at the end of each token
WhitespaceTokens(s) ==
    Cardinality({i \in 1..Len(s) :
        ~IsSpace(Char(s, i)) /\ (i = Len(s) \/ IsSpace(Char(s, i + 1)))})

Failed == {"raised", "rejected"}

\* the artifacts stored and the artifact returned, as (content, word_count)
Artifacts ==
    {[content |-> o.content, word_count |-> o.word_count] : o \in book_orders}
    \cup (IF http.status_code = 200
          THEN {[content |-> http.body.content, word_count |-> http.body.word_count]}
          ELSE {})

\* C1: the word_count of the artifact, the one stored and the one returned, is the
\* number of whitespace-delimited tokens of its content, for a generated body and
\* for a fallback body.
C1_WordCountIsTokenCount ==
    \A artifact \in Artifacts : artifact.word_count = WhitespaceTokens(artifact.content)

C1_Witness ==
    /\ pc = "responded"
    /\ http.status_code = 200
    /\ source = "fallback"
    /\ http.body.word_count > 1500
    /\ \E o \in book_orders : o.id = http.body.id /\ o.word_count = http.body.word_count

\* C2: generate_book does not raise past its boundary: whatever the outcomes of the
\* calls (exception, None or empty, under-length, qualifying), it makes at most 3
\* calls, always has a next step until it returns, and returns a str; the endpoint
\* never answers without a body returned by generate_book.
C2_GenerateBookAlwaysReturns ==
    /\ Len(calls) <= 3
    /\ pc = "loop" => attempt \in 0..MaxAttempts
    /\ (pc = "loop" /\ attempt < MaxAttempts) => ENABLED StartAttempt
    /\ pc = "await" =>
        /\ ENABLED SendMessageRaises
        /\ \A r \in Responses : ENABLED SendMessageReturns(r)
    /\ (pc \in {"returned", "insert", "responded"} /\ http.status_code # 422) =>
        /\ source \in {"ai", "fallback"}
        /\ content \in STRING
        /\ Len(outcomes) = Len(calls)

C2_Witness ==
    /\ pc = "returned"
    /\ outcomes = <<"raised", "rejected", "raised">>
    /\ Len(calls) = 3
    /\ Len(content) > 0

C4_AttemptsInOrderAndShortCircuit ==
    /\ \A k \in 1..Len(calls) : calls[k].attempt = k - 1
    /\ Len(outcomes) <= Len(calls)
    /\ Len(calls) <= Len(outcomes) + 1
    /\ (Len(calls) = Len(outcomes) + 1) <=> (pc \in {"await", "cancelled"})
    /\ \A k \in 1..Len(outcomes) : k < Len(calls) => outcomes[k] \in Failed
    /\ \A k \in 1..Len(outcomes) : outcomes[k] = "accepted" => Len(calls) = k

C4_Witness ==
    /\ pc = "responded"
    /\ outcomes = <<"accepted">>
    /\ Len(calls) = 1

DefaultProvider == "openai"
DefaultModel == "gpt-4o-mini"

\* C5 (as claimed): when the first attempt returns an under-length response without
\* raising, the second attempt uses the default provider and model, whatever the topic.
C5_RejectedFirstAttemptNarrows ==
    (Len(calls) >= 2 /\ outcomes[1] = "rejected") =>
        /\ calls[2].model_provider = DefaultProvider
        /\ calls[2].model_name = DefaultModel

\* C6: after an attempt that raised, every later attempt of the invocation uses the
\* default provider and model, whatever the topic, also when an under-length
\* response comes in between; the locals stay narrowed once a retry was narrowed.
C6_RaiseNarrowsLaterAttempts ==
    /\ \A j \in 1..Len(outcomes) : \A k \in 1..Len(calls) :
        (j < k /\ outcomes[j] = "raised") =>
            /\ calls[k].model_provider = DefaultProvider
            /\ calls[k].model_name = DefaultModel
    /\ (\E j \in 1..Len(outcomes) : j < MaxAttempts /\ outcomes[j] = "raised") =>
            /\ model_provider = DefaultProvider
            /\ model_name = DefaultModel

C6_Witness ==
    /\ request.topic = "A Creative Short Story"
    /\ Len(calls) = 3
    /\ outcomes[1] = "raised"
    /\ outcomes[2] = "rejected"
    /\ calls[1].model_provider = "anthropic"
    /\ calls[3].model_provider = "openai"

\* kw occurs in topic, letter case ignored (both folded to upper case)
HasKeyword(topic, kw) ==
    \E i \in 1..(Len(topic) - Len(kw) + 1) :
        \A j \in 1..Len(kw) : UpperChar(Char(topic, i + j - 1)) = UpperChar(Char(kw, j))

ExpectedStrategy(topic) ==
    IF HasKeyword(topic, "technical") \/ HasKeyword(topic, "programming")
    THEN [provider |-> "openai", style |-> "technical yet accessible"]
    ELSE IF HasKeyword(topic, "story") \/ HasKeyword(topic, "creative")
    THEN [provider |-> "anthropic", style |-> "engaging and narrative-driven"]
    ELSE [provider |-> "openai", style |-> "clear and informative"]

\* C7: the strategy of the first attempt depends on the topic alone, letter case
\* ignored: a technical keyword gives the technical style on openai, otherwise a
\* creative keyword gives the narrative style on anthropic, otherwise the general
\* style on openai; a topic with both kinds of keyword is technical.
C7_StrategyOfFirstAttempt ==
    /\ (pc = "loop" /\ attempt = 0) =>
        style_instruction = ExpectedStrategy(request.topic).style
    /\ (pc = "await" /\ attempt = 0) =>
        /\ calls[1].attempt = 0
        /\ calls[1].model_provider = ExpectedStrategy(request.topic).provider
        /\ Contains("Style: " \o ExpectedStrategy(request.topic).style \o "\n",
                    calls[1].system_message)

C7_Witness ==
    /\ request.topic = "TECHNICAL Story Writing"
    /\ pc = "await"
    /\ attempt = 0
    /\ calls[1].model_provider = "openai"
    /\ style_instruction = "technical yet accessible"

KnownTiers == <<"basic", "pro", "premium">>

\* C8: a request with a tier other than basic, pro, premium gets the prompts and the
\* fallback body of the same request with tier pro: the band of both prompts is
\* 10,000-15,000 words.
C8_UnknownTierIsPro ==
    (pc \notin {"idle", "generate_book"}
        /\ request # NoRequest
        /\ \A k \in 1..Len(KnownTiers) : request.tier # KnownTiers[k]) =>
        LET asPro == [request EXCEPT !.tier = "pro"]
        IN  /\ system_message = SystemMessage(asPro, style_instruction)
            /\ user_prompt = UserPrompt(asPro)
            /\ (pc = "loop" /\ attempt = 0) =>
                /\ Contains("Expected Length: 10,000-15,000 words\n", system_message)
                /\ Contains("- Length: Aim for 10,000-15,000 words\n", user_prompt)
            /\ (pc = "returned" /\ source = "fallback") =>
                content = _generate_enhanced_fallback_book(asPro, now)

C8_Witness ==
    /\ request.tier = "enterprise"
    /\ pc = "returned"
    /\ source = "fallback"
    /\ Len(calls) = 3

\* C9: for the same topic and audience the fallback body of a tier is strictly
\* shorter, in characters and in whitespace tokens, than the fallback body of the
\* next tier (basic, pro, premium), whatever the dates of the two.
C9_FallbackLengthGrowsWithTier ==
    (pc = "returned" /\ source = "fallback") =>
        \A k \in 1..(Len(KnownTiers) - 1) :
            request.tier = KnownTiers[k] =>
                \A d \in Dates :
                    LET next == _generate_enhanced_fallback_book(
                                    [request EXCEPT !.tier = KnownTiers[k + 1]], d)
                    IN  /\ Len(content) < Len(next)
                        /\ WhitespaceTokens(content) < WhitespaceTokens(next)

C9_Witness ==
    /\ pc = "returned"
    /\ source = "fallback"
    /\ request.tier = "pro"
    /\ request.topic = "Healthy Living Tips"
    /\ Len(content) > 12000

\* C10: the fallback body contains the topic and the audience as they were given,
\* letter case kept.
C10_FallbackContainsTopicAndAudience ==
    (pc = "returned" /\ source = "fallback") =>
        /\ Contains(request.topic, content)
        /\ Contains(request.audience, content)

C10_Witness ==
    /\ pc = "returned"
    /\ source = "fallback"
    /\ request.topic = "TECHNICAL Story Writing"
    /\ request.audience = "beginners"

\* C11 (as claimed): the fallback body depends on the topic, audience and tier of the
\* request alone: a second call with the same request returns the body the first
\* call returned, at whatever time it is made.
C11_FallbackSameAtAnyTime ==
    (pc = "returned" /\ source = "fallback") =>
        \A date \in Dates : _generate_enhanced_fallback_book(request, date) = content

\* C13 (as claimed): when insert_one fails for a request whose body was obtained, the
\* endpoint still answers 200 with the artifact.
C13_StoreFailureStillReturnsArtifact ==
    (pc = "responded" /\ store_calls # <<>> /\ store_calls[1] \notin book_orders) =>
        /\ http.status_code = 200
        /\ http.body.content = content

\* C14 (as claimed): the artifact answered by generate-book is the stored one: same
\* id, content, word_count, created_at and status.
C14_ReturnedIsStoredArtifact ==
    http.status_code = 200 =>
        \E o \in book_orders :
            /\ o.id = http.body.id
            /\ o.content = http.body.content
            /\ o.word_count = http.body.word_count
            /\ o.created_at = http.body.created_at
            /\ o.status = http.body.status

\* C15 (as claimed): a request with an empty topic is answered 422 by the validation
\* of the body: no call to the text-generation service is made and nothing is handed
\* to the store.
C15_EmptyTopicRejected ==
    (requests > 0 /\ request.topic = "") =>
        /\ calls = <<>>
        /\ store_calls = <<>>
        /\ pc = "responded" => http.status_code = 422

\* C16: once the request is cancelled while a call to the text-generation service is
\* in flight, the request stays cancelled: the call in flight gets no outcome, no
\* further attempt can start, no fallback body is built, no order is built, handed
\* to the store or stored, and the endpoint gives no answer.
C16_CancellationPropagates ==
    cancelled =>
        /\ pc = "cancelled"
        /\ Len(calls) = Len(outcomes) + 1
        /\ \A k \in 1..Len(outcomes) : outcomes[k] \in Failed
        /\ source = "none"
        /\ content = ""
        /\ book_order = NoOrder
        /\ store_calls = <<>>
        /\ \A o \in book_orders : o.id # uuid4(requests)
        /\ http = NoAnswer
        /\ ~ENABLED StartAttempt
        /\ \A date \in Dates : ~ENABLED UseFallback(date)
        /\ \A utcnow \in Timestamps : ~ENABLED CreateOrder(utcnow)

C16_Witness ==
    /\ cancelled
    /\ request.topic = "A Creative Short Story"
    /\ Len(calls) = 2
    /\ outcomes = <<"raised">>

\* the ranges test_ai_book_generation expects of word_count
expected_ranges ==
    [basic |-> [min_words |-> 3000, max_words |-> 10000],
     pro |-> [min_words |-> 8000, max_words |-> 20000],
     premium |-> [min_words |-> 15000, max_words |-> 35000]]

\* C17 (as claimed): for tier basic, pro or premium the word_count answered by
\* generate-book lies in the range of the tier, whatever the text-generation service
\* did, the fallback body included.
C17_WordCountInTierRange ==
    (http.status_code = 200 /\ request.tier \in DOMAIN expected_ranges) =>
        /\ expected_ranges[request.tier].min_words <= http.body.word_count
        /\ http.body.word_count <= expected_ranges[request.tier].max_words

\* C18: get_book(book_id) answers 200 exactly when book_id is the id of an earlier
\* 200 answer of generate-book, and then returns the order with that id, content and
\* word_count as they were answered; for any other id it answers 404 without an order.
C18_GetBookFindsReturnedBooks ==
    get_answer # NoAnswer =>
        /\ get_answer.status_code \in {200, 404}
        /\ get_answer.status_code = 200 <=>
            \E b \in generated_books : b.id = get_answer.book_id
        /\ get_answer.status_code = 200 =>
            /\ get_answer.body.id = get_answer.book_id
            /\ get_answer.body \in book_orders
            /\ \A b \in generated_books :
                b.id = get_answer.book_id =>
                    /\ get_answer.body.content = b.content
                    /\ get_answer.body.word_count = b.word_count
        /\ get_answer.status_code = 404 => "body" \notin DOMAIN get_answer

C18_Witness ==
    /\ Cardinality(book_orders) = 2
    /\ get_answer.status_code = 200
    /\ get_answer.book_id = uuid4(1)
    /\ \E o \in book_orders : o.id = uuid4(2) /\ o.content # get_answer.body.content

\* the first of the xss_payloads of test_security_and_edge_cases
XssPayload == "<script>alert('xss')</script>"

\* C19 (as claimed): when the topic is a script injection payload, the content
\* answered by generate-book does not contain the payload as it was given.
C19_PayloadNotInContent ==
    (http.status_code = 200 /\ request.topic = XssPayload) =>
        ~Contains(XssPayload, http.body.content)

\* C20: a request makes at most one insert_one call and none before generate_book
\* has returned; the call is made with the body and word count the endpoint then
\* answers, before any answer; a 200 answer has exactly one call behind it, whose
\* document is stored; a failed request has at most one.
C20_OneStoreCallPerRequest ==
    /\ Len(store_calls) <= 1
    /\ pc \in {"idle", "generate_book", "loop", "await", "returned", "cancelled"} =>
        store_calls = <<>>
    /\ pc = "insert" =>
        /\ Len(store_calls) = 1
        /\ http = NoAnswer
        /\ source \in {"ai", "fallback"}
        /\ store_calls[1].content = content
        /\ store_calls[1].word_count = word_count
    /\ http.status_code = 200 =>
        /\ Len(store_calls) = 1
        /\ store_calls[1] \in book_orders
        /\ store_calls[1].content = http.body.content
        /\ store_calls[1].word_count = http.body.word_count
    /\ Cardinality(book_orders) <= Len(store_calls)

C20_Witness ==
    /\ pc = "responded"
    /\ http.status_code = 500
    /\ Len(store_calls) = 1
    /\ book_orders = {}

\* how many whitespace characters s starts with, and ends with
LeadingSpaces(s) ==
    Cardinality({i \in 1..Len(s) : \A j \in 1..i : IsSpace(Char(s, j))})

TrailingSpaces(s) ==
    Cardinality({i \in 1..Len(s) : \A j \in i..Len(s) : IsSpace(Char(s, j))})

\* the length of s without its leading and trailing whitespace
TrimmedLength(s) ==
    IF LeadingSpaces(s) = Len(s) THEN 0
    ELSE Len(s) - LeadingSpaces(s) - TrailingSpaces(s)

\* C22: a response is accepted exactly when it is a non-empty str whose trimmed
\* length is above 500 (500 itself is rejected, whitespace around it does not count);
\* an accepted response is returned as it came, a rejected one leaves the body alone
\* and the loop goes on.
C22_AcceptedIffTrimmedLengthAbove500 ==
    [][\A response \in Responses :
        SendMessageReturns(response) =>
            /\ (pc' = "returned") <=>
                (~response.none /\ response.text # ""
                    /\ TrimmedLength(response.text) > 500)
            /\ pc' = "returned" =>
                (content' = response.text /\ source' = "ai")
            /\ pc' # "returned" =>
                (pc' = "loop" /\ content' = content /\ source' = source)]_vars

C22_Witness ==
    /\ pc = "returned"
    /\ source = "ai"
    /\ Len(content) = MinResponseLength + 1 + 2 * MaxPad
    /\ TrimmedLength(content) = MinResponseLength + 1
    /\ outcomes = <<"rejected", "accepted">>

GeneralStyle == "clear and informative"

\* C23 (as claimed): a retry that was narrowed to the default provider and model is
\* sent the default strategy as a whole: the style of its system message is the
\* general style.
C23_NarrowedRetryHasGeneralStyle ==
    \A k \in 2..Len(calls) :
        (\E j \in 1..(k - 1) : j <= Len(outcomes) /\ outcomes[j] = "raised") =>
            /\ calls[k].model_provider = DefaultProvider
            /\ calls[k].model_name = DefaultModel
            /\ Contains("Style: " \o GeneralStyle \o "\n", calls[k].system_message)

\* C24: the status of an order does not tell how its body was obtained: every order
\* handed to the store and stored has status "generated" and every 200 answer has
\* status "completed", with a generated body and with the fallback body alike.
C24_StatusIndependentOfSource ==
    /\ \A k \in 1..Len(store_calls) : store_calls[k].status = "generated"
    /\ \A o \in book_orders : o.status = "generated"
    /\ http.status_code = 200 =>
        /\ source \in {"ai", "fallback"}
        /\ http.body.status = "completed"

C24_Witness ==
    /\ http.status_code = 200
    /\ source = "fallback"
    /\ \E o \in book_orders : o.id = http.body.id /\ o.content = http.body.content

\* the provider and model the k-th call of an invocation is to use: the default ones
\* once an earlier call of the same invocation has raised, else those of its topic
ExpectedCall(task, k, strategy) ==
    IF \E j \in 1..(k - 1) : task.outcomes[j] = "raised"
    THEN [provider |-> DefaultProvider, model |-> DefaultModel]
    ELSE IF strategy.provider = "anthropic"
    THEN [provider |-> "anthropic", model |-> "claude-3-5-sonnet-20241022"]
    ELSE [provider |-> DefaultProvider, model |-> DefaultModel]

\* what an invocation has done is told by its own request and own outcomes
Independent(task) ==
    /\ task.calls # <<>> =>
        LET strategy == ExpectedStrategy(task.request.topic)
        IN  \A k \in 1..Len(task.calls) :
                /\ task.calls[k].attempt = k - 1
                /\ task.calls[k].model_provider = ExpectedCall(task, k, strategy).provider
                /\ task.calls[k].model_name = ExpectedCall(task, k, strategy).model
                /\ Contains("Style: " \o strategy.style \o "\n",
                            task.calls[k].system_message)
                /\ Contains("Target Audience: " \o task.request.audience \o "\n",
                            task.calls[k].system_message)
                /\ Contains("\"" \o task.request.topic \o "\" for "
                                \o task.request.audience,
                            task.calls[k].text)
    /\ Len(task.outcomes) <= Len(task.calls)
    /\ Len(task.calls) <= MaxAttempts
    /\ task.source = "ai" =>
        /\ task.outcomes[Len(task.outcomes)] = "accepted"
        /\ TrimmedLength(task.content) > 500
    /\ task.source = "fallback" =>
        /\ Len(task.outcomes) = MaxAttempts
        /\ \A k \in 1..MaxAttempts : task.outcomes[k] \in Failed
        /\ task.content = _generate_enhanced_fallback_book(task.request, task.now)

\* C21: with two invocations of generate_book interleaved at the awaits in every
\* way, the attempts, the provider and model of each call and the returned body of
\* each invocation are those its own request and the outcomes of its own calls give:
\* a narrowing in one invocation does not reach the other.
C21_ConcurrentInvocationsIndependent ==
    /\ Independent(Task)
    /\ Independent(peer)

C21_Witness ==
    /\ pc = "await"
    /\ peer.pc = "await"
    /\ request.topic = "A Creative Short Story"
    /\ outcomes = <<"rejected">>
    /\ calls[2].model_provider = "anthropic"
    /\ peer.outcomes = <<"raised", "raised">>
    /\ peer.calls[3].model_provider = "openai"

\* the topic of the body of a checkout request, trimmed, is empty or too long
TopicOutOfRange ==
    /\ data # InvalidJson
    /\ LET topic == Get(data, "topic", "")
       IN  TrimmedLength(topic) = 0 \/ TrimmedLength(topic) > 200

\* C25 (as claimed): create_checkout_session answers 400 and makes no
\* Session.create call when the trimmed topic is empty or longer than 200 characters.
C25_TopicOutOfRangeIs400 ==
    (wb_pc = "answered" /\ authorized /\ endpoint = "create-checkout-session"
        /\ TopicOutOfRange) =>
        /\ answer.status_code = 400
        /\ stripe_calls = <<>>

\* C26: a handler of the protected endpoints runs only for a request whose bearer
\* token is the configured API_KEY; without a token, with another token or with
\* API_KEY unset the answer is 401 and neither Stripe nor the AI service is called.
C26_HandlersNeedTheApiKey ==
    /\ authorized =>
        /\ ~credentials.none
        /\ ~environ.API_KEY.none
        /\ credentials.text = environ.API_KEY.text
    /\ wb_pc \in {"handler", "stripe", "ai"} => authorized
    /\ (wb_pc = "answered" /\ answer.status_code # 401) => authorized
    /\ (wb_pc # "idle"
        /\ (credentials.none \/ environ.API_KEY.none
            \/ credentials.text # environ.API_KEY.text)) =>
        /\ wb_pc \in {"verify", "answered"}
        /\ wb_pc = "answered" => answer.status_code = 401
        /\ stripe_calls = <<>>
        /\ ai_calls = <<>>

C26_Witness ==
    /\ wb_pc = "answered"
    /\ environ.API_KEY.none
    /\ ~credentials.none
    /\ endpoint = "create-checkout-session"
    /\ data # InvalidJson
    /\ answer.status_code = 401

\* the waits of save_results after n failed attempts that another attempt follows
Backoff(n) == IF n <= 0 THEN <<>> ELSE [k \in 1..n |-> 2 ^ (k - 1)]

\* C27 (as claimed): save_results, for every configured max_retries, makes at most
\* max_retries + 1 write attempts and returns a boolean: True as soon as an attempt
\* succeeds, False only after all max_retries + 1 attempts have failed; it waits
\* 2^k seconds after failed attempt k when another follows, and not after the last.
C27_SaveResultsReturnsBoolean ==
    app_pc = "saved" =>
        LET n == Len(write_outcomes)
        IN  /\ success \in {"True", "False"}
            /\ n <= max_retries + 1
            /\ \A k \in 1..(n - 1) : write_outcomes[k] = "failed"
            /\ success = "True" => write_outcomes[n] = "written"
            /\ success = "False" => (n = max_retries + 1 /\ write_outcomes[n] = "failed")
            /\ sleeps = Backoff(n - 1)

\* C28: when shutdown_event is set by the time process_data returns, run returns
\* 130 and save_results is never called: no write attempt, no results file.
C28_ShutdownSkipsSave ==
    shutdown_at_return =>
        /\ app_pc \in {"check", "returned"}
        /\ success = "pending"
        /\ write_outcomes = <<>>
        /\ ~file_written
        /\ app_pc = "returned" => run_result = 130

C28_Witness ==
    /\ app_pc = "returned"
    /\ shutdown_at_return
    /\ run_result = 130
    /\ Len(processed_data) = Len(SampleData)

\* C29: the health status moves INITIALIZING -> RUNNING -> TERMINATED and nowhere
\* else; it is TERMINATED whenever run has returned, on every exit path, and it
\* is never PAUSED or STOPPING.
C29_StatusLifecycle ==
    /\ [](health_status \in {"INITIALIZING", "RUNNING", "TERMINATED"})
    /\ [](app_pc = "constructed" => health_status = "INITIALIZING")
    /\ [](app_pc = "returned" => health_status = "TERMINATED")
    /\ [][health_status' # health_status =>
            <<health_status, health_status'>> \in
                {<<"INITIALIZING", "RUNNING">>, <<"RUNNING", "TERMINATED">>}]_vars

\* run has returned 1 from "except Exception", before save_results was called
C29_Witness ==
    /\ app_pc = "returned"
    /\ run_result = 1
    /\ success = "pending"
    /\ health_status = "TERMINATED"

\* the item is a dict with an 'id'
HasId(item) == IsDict(item) /\ "id" \in DOMAIN item

\* C30: process_data goes through every item of its input without raising: the
\* output holds the items that are dicts with an 'id', in their input order and
\* with their keys kept, every other item is one error of the metrics, so output
\* length plus errors is the number of items gone through, and items_processed
\* equals processed_count.
C30_ProcessDataCountsEveryItem ==
    LET kept == SelectSeq(SubSeq(input_data, 1, index), HasId)
    IN  /\ app_pc \in {"process_data", "for_item", "check"}
        /\ app_pc = "check" => index = Len(input_data)
        /\ Len(processed_data) + metrics.errors_count = index
        /\ Len(processed_data) = Len(kept)
        /\ \A k \in 1..Len(kept) : \A key \in DOMAIN kept[k] :
            processed_data[k][key] = kept[k][key]
        /\ metrics.items_processed = processed_count
        /\ processed_count = Len(processed_data)

C30_Witness ==
    /\ app_pc = "check"
    /\ Len(input_data) = MaxItems
    /\ metrics.errors_count = 1
    /\ Len(processed_data) = 2
    /\ processed_data[1].id = PyInt(2)
    /\ processed_data[2].id = PyInt(1)

====
